---- MODULE Spec2Model ----
(***************************************************************************)
(* Model of the ffmpreg packet/frame engine: the WAV demuxer and muxer,    *)
(* the codec layer, the resampler and the transcode loop of Pipeline.      *)
(* Bytes are naturals 0..255, byte buffers are sequences, records follow   *)
(* the Rust structs field by field.                                        *)
(***************************************************************************)
EXTENDS Integers, Sequences, FiniteSets, TLC

(***************************************************************************)
(* Bounds of the model (not program constants).                            *)
(***************************************************************************)
\* largest number of full 4096-byte packets in a modelled data chunk
MaxFullPackets == 2
\* how many reads of the underlying source may return fewer bytes than asked
MaxShortReads == 1
\* how many times a caller polls read_packet again after end-of-stream
MaxExtraReads == 1
\* largest number of write_packet calls made on a muxer driven on its own
MaxWrites == 3
\* largest number of decode / encode calls made on one codec instance
MaxCodecCalls == 2
\* calls of read_packet made on a demuxer driven on its own
MaxPolls == 3
\* calls of read / read_exact made on a BufferedReader
MaxBufCalls == 4
\* calls of apply made on one transform
MaxApplies == 2
\* nibbles of one MS-ADPCM block payload followed per channel
MaxNibbles == 2
\* longest source and buffer of a read_exact call, and the most Interrupted
\* errors a source returns in a row
MaxSourceLen == 3
MaxInterrupts == 2

(***************************************************************************)
(* Program constants.                                                      *)
(***************************************************************************)
\* container/wav/read.rs:100   let frame_size = 4096.min(...)
PACKET_SIZE == 4096
\* container/wav/write.rs:21   36 + data_size
RIFF_OVERHEAD == 36
\* container/wav/write.rs:10-34 the header written by write_header
HEADER_LEN == 44

None == [none |-> TRUE]

Min(a, b) == IF a < b THEN a ELSE b
Max(a, b) == IF a > b THEN a ELSE b

\* integer division truncating toward zero (Rust `/` and `as` on floats)
TruncDiv(a, b) == IF a >= 0 THEN a \div b ELSE -((-a) \div b)

\* u32::to_le_bytes
LE32(x) == << x % 256, (x \div 256) % 256, (x \div 65536) % 256, (x \div 16777216) % 256 >>
\* u16::to_le_bytes
LE16(x) == << x % 256, (x \div 256) % 256 >>
\* u32::from_le_bytes
FromLE32(b) == b[1] + 256 * b[2] + 65536 * b[3] + 16777216 * b[4]
\* i16::from_le_bytes
I16FromLE(lo, hi) == LET u == lo + 256 * hi IN IF u >= 32768 THEN u - 65536 ELSE u
\* i16::to_le_bytes
I16ToLE(s) == LE16((s + 65536) % 65536)
\* clamp(-32768, 32767) / saturating float-to-i16 cast
ClampI16(v) == IF v > 32767 THEN 32767 ELSE IF v < -32768 THEN -32768 ELSE v

RECURSIVE SumSeq(_)
SumSeq(s) == IF s = << >> THEN 0 ELSE s[1] + SumSeq(Tail(s))

(***************************************************************************)
(* core: Timebase, Packet, Frame                                           *)
(***************************************************************************)
Timebase_new(num, den) == [num |-> num, den |-> den]

\* Packet::new
Packet_new(data, stream_index, timebase) ==
  [data |-> data, pts |-> 0, dts |-> 0, timebase |-> timebase,
   stream_index |-> stream_index, keyframe |-> FALSE, discard |-> FALSE]
\* Packet::with_pts
Packet_with_pts(p, pts) == [p EXCEPT !.pts = pts]
\* Packet::size
Packet_size(p) == Len(p.data)

\* FrameAudio::new(..).with_nb_samples(..) wrapped by Frame::new_audio(..).with_pts(..)
Frame_new_audio(data, sample_rate, channels, nb_samples, timebase, stream_index, pts) ==
  [kind |-> "audio", data |-> data, sample_rate |-> sample_rate, channels |-> channels,
   nb_samples |-> nb_samples, width |-> 0, height |-> 0,
   pts |-> pts, timebase |-> timebase, stream_index |-> stream_index]
\* FrameVideo::new(..) wrapped by Frame::new_video(..).with_pts(..)
Frame_new_video(data, width, height, timebase, stream_index, pts) ==
  [kind |-> "video", data |-> data, sample_rate |-> 0, channels |-> 0,
   nb_samples |-> 0, width |-> width, height |-> height,
   pts |-> pts, timebase |-> timebase, stream_index |-> stream_index]

(***************************************************************************)
(* container/wav: WavFormat                                                *)
(***************************************************************************)
WavFormat(channels, sample_rate, bit_depth) ==
  [channels |-> channels, sample_rate |-> sample_rate, bit_depth |-> bit_depth]
bytes_per_sample(format) == format.bit_depth \div 8
bytes_per_frame(format) == bytes_per_sample(format) * format.channels

(***************************************************************************)
(* State.                                                                  *)
(***************************************************************************)
VARIABLES
  mode,        \* which driver runs: "pipeline", "writer" or "codec"
  route,       \* Pipeline::run_io's match arm, or "demux_only" (a caller that only polls the demuxer)
  chain,       \* the transform chain built from Pipeline.transforms
  format,      \* WavFormat returned by WavReader::format
  dataSize,    \* size declared by the input's data chunk header
  srcLen,      \* bytes the input really holds after the data chunk header
  reader,      \* WavReader: data_remaining, packet_count, and the source offset
  shortReads,  \* short reads the source has returned so far
  extraReads,  \* polls of read_packet made after end-of-stream
  cur,         \* the packet or frame in flight between two stages
  encFrom,     \* pts/timebase/stream_index of the frame the packet in flight was encoded from
  writer,      \* WavWriter: the output file (buf, pos) and data_size
  pc,          \* position of Pipeline's loop
  readLog,     \* history: pts, size and source offset of every packet read_packet returned
  sumSamples,  \* history: sum of nb_samples of all decoded frames
  muxLog,      \* history: the calls made on the muxer, in order
  eos,         \* history: read_packet has returned None
  srcReadCalls,\* history: calls of read() on the underlying source
  lastPoll,    \* history: what the last read_packet call did
  err,         \* stage whose error ended the run, "" if none
  written,     \* history (writer driver): the payloads handed to write_packet, concatenated
  codec,       \* codec driver: the codec under test and its construction parameters
  unit,        \* codec driver: the packet or frame handed to the codec
  result       \* codec driver: what decode / encode returned

pipeVars == << route, chain, format, dataSize, srcLen, reader, shortReads, extraReads,
               cur, encFrom, pc, readLog, sumSamples, muxLog, eos, srcReadCalls, lastPoll, err >>
codecVars == << codec, unit, result >>
vars == << mode, route, chain, format, dataSize, srcLen, reader, shortReads, extraReads,
           cur, encFrom, writer, pc, readLog, sumSamples, muxLog, eos, srcReadCalls, lastPoll, err,
           written, codec, unit, result >>

(***************************************************************************)
(* The input file and the host's read().                                   *)
(***************************************************************************)
\* byte at 1-based offset i of the input's data region (period 251, so no
\* two packets of 4096 bytes hold the same bytes)
SourceByte(i) == ((i % 251) * 37) % 256
SourceBytes(from, n) == [i \in 1..n |-> SourceByte(from + i)]

\* lengths a short read may return
ShortLens == {3}

\* FileAdapter::read -> File::read: the byte counts a read of `want` bytes may
\* return when `avail` bytes are left: all of them, or fewer (a short read);
\* 0 only at end of file
SourceReads(want, avail, mayShort) ==
  LET full == Min(want, avail) IN
  {full} \cup (IF mayShort THEN {s \in ShortLens : s < full} ELSE {})

(***************************************************************************)
(* container/wav/read.rs: WavReader                                        *)
(***************************************************************************)
\* WavReader::new, after read_header and find_data_chunk succeeded
WavReader_new(fmt, data_size) ==
  [data_remaining |-> data_size, packet_count |-> 0, pos |-> 0,
   timebase |-> Timebase_new(1, fmt.sample_rate)]

\* mutant: the buffer is always a full packet, whatever is left of the chunk
WavReader_frame_size_full(r) == PACKET_SIZE

\* read_packet: the size of the buffer handed to reader.read
WavReader_frame_size(r) == Min(PACKET_SIZE, r.data_remaining)

\* read_packet, the part after reader.read returned `read` bytes (buf truncated to them)
WavReader_read_packet(r, fmt, read) ==
  IF read = 0
  THEN [reader |-> r, packet |-> None]
  ELSE IF bytes_per_frame(fmt) = 0
  THEN [reader |-> [r EXCEPT !.data_remaining = r.data_remaining - read],
        packet |-> [panic |-> TRUE]]
  ELSE LET buf == SourceBytes(r.pos, read)
           pts == (r.packet_count * read) \div bytes_per_frame(fmt)
       IN [reader |-> [r EXCEPT !.data_remaining = r.data_remaining - read,
                                !.packet_count = r.packet_count + 1,
                                !.pos = r.pos + read],
           packet |-> Packet_with_pts(Packet_new(buf, 0, r.timebase), pts)]

(***************************************************************************)
(* codecs/pcm                                                              *)
(***************************************************************************)
\* mutant: the frame is built without with_pts
PcmDecoder_decode_no_pts(fmt, packet) ==
  Frame_new_audio(packet.data, fmt.sample_rate, fmt.channels,
                  Packet_size(packet) \div bytes_per_frame(fmt),
                  packet.timebase, packet.stream_index, 0)

\* PcmDecoder::decode
PcmDecoder_decode(fmt, packet) ==
  LET nb_samples == Packet_size(packet) \div bytes_per_frame(fmt)
  IN Frame_new_audio(packet.data, fmt.sample_rate, fmt.channels, nb_samples,
                     packet.timebase, packet.stream_index, packet.pts)

\* mutant: the encoder keeps only whole 16-bit samples
PcmEncoder_encode_whole_samples(timebase, frame) ==
  Packet_with_pts(Packet_new(SubSeq(frame.data, 1, 2 * (Len(frame.data) \div 2)),
                             frame.stream_index, timebase), frame.pts)

\* PcmEncoder::encode (self.timebase is the encoder's own)
PcmEncoder_encode(timebase, frame) ==
  Packet_with_pts(Packet_new(frame.data, frame.stream_index, timebase), frame.pts)


(***************************************************************************)
(* container/wav/write.rs: WavWriter over a seekable output                *)
(* data_size is a u32; the sizes of the model stay far below 2^32 (and     *)
(* below TLC's integer range), so its wrap-around is never reached here.   *)
(***************************************************************************)
\* Write::write_all at the current position of a seekable output: bytes past
\* the end extend it, bytes inside it are overwritten
File_write_all(f, bytes) ==
  [buf |-> SubSeq(f.buf, 1, f.pos) \o bytes
           \o SubSeq(f.buf, f.pos + Len(bytes) + 1, Len(f.buf)),
   pos |-> f.pos + Len(bytes)]
\* Seek::seek(SeekFrom::Start(p))
File_seek(f, p) == [f EXCEPT !.pos = p]

TagRIFF == << 82, 73, 70, 70 >>
TagWAVE == << 87, 65, 86, 69 >>
TagFmt  == << 102, 109, 116, 32 >>
TagData == << 100, 97, 116, 97 >>

\* WavWriter::write_header
WavWriter_write_header(fmt, data_size) ==
  LET byte_rate == fmt.sample_rate * bytes_per_frame(fmt)
      block_align == bytes_per_frame(fmt) % 65536
  IN TagRIFF \o LE32(RIFF_OVERHEAD + data_size) \o TagWAVE
     \o TagFmt \o LE32(16) \o LE16(1) \o LE16(fmt.channels) \o LE32(fmt.sample_rate)
     \o LE32(byte_rate) \o LE16(block_align) \o LE16(fmt.bit_depth)
     \o TagData \o LE32(data_size)

\* WavWriter::new
WavWriter_new(fmt) ==
  LET f == File_write_all([buf |-> << >>, pos |-> 0], WavWriter_write_header(fmt, 0))
  IN [buf |-> f.buf, pos |-> f.pos, data_size |-> 0]

\* mutant: the payload is written but not counted
WavWriter_write_packet_uncounted(w, packet) ==
  LET f == File_write_all([buf |-> w.buf, pos |-> w.pos], packet.data)
  IN [buf |-> f.buf, pos |-> f.pos, data_size |-> w.data_size]

\* WavWriter::write_packet, when write_all succeeds
WavWriter_write_packet(w, packet) ==
  LET f == File_write_all([buf |-> w.buf, pos |-> w.pos], packet.data)
  IN [buf |-> f.buf, pos |-> f.pos,
      data_size |-> w.data_size + Packet_size(packet)]

\* WavWriter::write_packet, when write_all fails after `n` bytes: data_size is not updated
WavWriter_write_packet_failed(w, packet, n) ==
  LET f == File_write_all([buf |-> w.buf, pos |-> w.pos], SubSeq(packet.data, 1, n))
  IN [w EXCEPT !.buf = f.buf, !.pos = f.pos]

\* WavWriter::finalize, first half: patch the RIFF size at offset 4
WavWriter_finalize_riff(w) ==
  LET f == File_write_all(File_seek([buf |-> w.buf, pos |-> w.pos], 4),
                          LE32(RIFF_OVERHEAD + w.data_size))
  IN [w EXCEPT !.buf = f.buf, !.pos = f.pos]

\* WavWriter::finalize, second half: patch the data size at offset 40
WavWriter_finalize_data(w) ==
  LET f == File_write_all(File_seek([buf |-> w.buf, pos |-> w.pos], 40), LE32(w.data_size))
  IN [w EXCEPT !.buf = f.buf, !.pos = f.pos]

\* WavWriter::finalize
WavWriter_finalize(w) ==
  LET current_pos == w.pos
      patched == WavWriter_finalize_data(WavWriter_finalize_riff(w))
  IN [patched EXCEPT !.pos = current_pos]


(***************************************************************************)
(* transform/resample.rs: Resample                                         *)
(* The f64 arithmetic is modelled exactly with integers; the sample rates  *)
(* of the model (Rates) are chosen so that src/dst is a dyadic rational    *)
(* and every f64 intermediate is exact.                                    *)
(***************************************************************************)
Panic == [panic |-> TRUE]
IsPanic(x) == "panic" \in DOMAIN x

\* data.chunks(2).map(|c| i16::from_le_bytes([c[0], c[1]])), for data of even length
SamplesOf(data) == [i \in 1..(Len(data) \div 2) |-> I16FromLE(data[2 * i - 1], data[2 * i])]
\* length of samples.iter().skip(ch).step_by(channels) over n samples, ch counted from 0
ChannelLen(n, ch, channels) == (n - ch + channels - 1) \div channels
\* samples.iter().skip(ch).step_by(channels) over n samples
ChannelSamples(samples, n, ch, channels) ==
  [i \in 1..ChannelLen(n, ch, channels) |-> samples[ch + 1 + (i - 1) * channels]]

\* Resample::linear_interpolate: output_len = ceil(len / ratio), ratio = src_rate / dst_rate
Resample_output_len(n, src_rate, dst_rate) ==
  IF src_rate = dst_rate THEN n ELSE (n * dst_rate + src_rate - 1) \div src_rate

\* Resample::linear_interpolate over the n samples of one channel
Resample_linear_interpolate(samples, n, src_rate, dst_rate) ==
  IF src_rate = dst_rate THEN samples
  ELSE [k \in 1..Resample_output_len(n, src_rate, dst_rate) |->
            LET num == (k - 1) * src_rate
                src_idx == num \div dst_rate
                r == num % dst_rate
            IN IF src_idx + 1 < n
               THEN ClampI16(TruncDiv(samples[src_idx + 1] * (dst_rate - r)
                                      + samples[src_idx + 2] * r, dst_rate))
               ELSE IF src_idx < n THEN samples[src_idx + 1] ELSE 0]

\* Resample::apply, the new pts: (frame_pts as f64 * target as f64 / src as f64) as i64
Resample_new_pts(pts, target_rate, src_rate) == TruncDiv(pts * target_rate, src_rate)

\* Resample::apply on a frame whose sample_rate is 0: ratio is 0.0, so
\* output_len is (len / 0.0).ceil() as usize: usize::MAX for a channel that
\* holds samples (Vec::with_capacity then aborts on capacity overflow) and 0
\* for an empty one (NaN as usize); the new pts is (pts * target / 0.0) as i64,
\* which is 0 for pts = 0 (the frames of the model with this rate have pts 0)
Resample_apply_zero_rate(target_rate, frame) ==
  IF Len(frame.data) > 0 THEN Panic
  ELSE Frame_new_audio(<< >>, target_rate, frame.channels, 0,
                       Timebase_new(1, target_rate), frame.stream_index, 0)

\* Resample::apply; Panic stands for the index-out-of-bounds and
\* division-by-zero aborts of lines 71 and 73
Resample_apply(target_rate, frame) ==
  IF frame.kind # "audio" THEN frame
  ELSE IF frame.sample_rate = target_rate THEN frame
  ELSE IF Len(frame.data) % 2 = 1 \/ frame.channels = 0 THEN Panic
  ELSE IF frame.sample_rate = 0 THEN Resample_apply_zero_rate(target_rate, frame)
  ELSE LET src_rate == frame.sample_rate
           channels == frame.channels
           n_in == Len(frame.data) \div 2
           input_samples == SamplesOf(frame.data)
           channel_data == [ch \in 1..channels |->
              Resample_linear_interpolate(
                 ChannelSamples(input_samples, n_in, ch - 1, channels),
                 ChannelLen(n_in, ch - 1, channels), src_rate, target_rate)]
           channel_len == [ch \in 1..channels |->
              Resample_output_len(ChannelLen(n_in, ch - 1, channels), src_rate, target_rate)]
           output_samples_per_channel == channel_len[1]
           out_samples == [j \in 1..(output_samples_per_channel * channels) |->
              LET i == (j - 1) \div channels
                  ch == (j - 1) % channels
              IN IF i < channel_len[ch + 1] THEN channel_data[ch + 1][i + 1] ELSE 0]
           output_data == [b \in 1..(2 * output_samples_per_channel * channels) |->
              I16ToLE(out_samples[(b + 1) \div 2])[2 - (b % 2)]]
           new_timebase == Timebase_new(1, target_rate)
           new_pts == Resample_new_pts(frame.pts, target_rate, src_rate)
       IN Frame_new_audio(output_data, target_rate, channels, output_samples_per_channel,
                          new_timebase, frame.stream_index, new_pts)

\* Transform::apply of one element of the chain
Transform_apply(t, frame) ==
  IF t.name = "resample" THEN Resample_apply(t.target_rate, frame) ELSE frame

\* TransformChain::apply: folds the frame through the list, stopping at a failure
RECURSIVE TransformChain_apply(_, _)
TransformChain_apply(ch, frame) ==
  IF ch = << >> \/ IsPanic(frame) THEN frame
  ELSE TransformChain_apply(Tail(ch), Transform_apply(Head(ch), frame))


(***************************************************************************)
(* Bit arithmetic on bytes, and the values a codec call can return.        *)
(***************************************************************************)
\* byte & 0x0F and (byte >> 4) & 0x0F
LowNibble(byte) == byte % 16
HighNibble(byte) == (byte \div 16) % 16
\* x >> 8 on a signed integer (arithmetic shift: floor division)
Shr8(x) == IF x >= 0 THEN x \div 256 ELSE -((-x + 255) \div 256)
\* `as i16` on an integer: keeps the low 16 bits
WrapI16(x) == LET u == ((x % 65536) + 65536) % 65536 IN IF u >= 32768 THEN u - 65536 ELSE u
\* flattening of a sequence of i16 samples with to_le_bytes, n samples
SamplesToBytes(samples, n) == [b \in 1..(2 * n) |-> I16ToLE(samples[(b + 1) \div 2])[2 - (b % 2)]]

IsNone(x) == "none" \in DOMAIN x
IsFrame(x) == "kind" \in DOMAIN x
IsPacket(x) == "keyframe" \in DOMAIN x
Err(kind) == [error |-> kind]
IsErr(x) == "error" \in DOMAIN x

(***************************************************************************)
(* transform/gain.rs, channel_mixer.rs, normalize.rs                       *)
(***************************************************************************)
\* the samples of `data` replaced one by one by f(sample); a trailing odd
\* byte stays as it is
MapSamples(data, f(_)) ==
  [b \in 1..Len(data) |->
     IF b > 2 * (Len(data) \div 2) THEN data[b]
     ELSE LET i == (b + 1) \div 2
          IN I16ToLE(f(I16FromLE(data[2 * i - 1], data[2 * i])))[2 - (b % 2)]]

\* mutant: `as i16` on the product without the clamp keeps the low 16 bits
Gain_amplify_wrapping(factor, sample) ==
  LET u == (TruncDiv(sample * factor.num, factor.den) + 131072) % 65536
  IN IF u >= 32768 THEN u - 65536 ELSE u

\* Gain::apply, one sample: (sample as f32 * factor).clamp(-32768.0, 32767.0) as i16.
\* The factors of the model are num/den with den a power of two, for which
\* the f32 product is exact; `as i16` drops the fraction.
Gain_amplify(factor, sample) == ClampI16(TruncDiv(sample * factor.num, factor.den))

\* Gain::apply
Gain_apply(factor, frame) ==
  IF frame.kind # "audio" THEN frame
  ELSE [frame EXCEPT !.data = MapSamples(frame.data, LAMBDA x : Gain_amplify(factor, x))]

\* ChannelMixer::convert_mono_to_stereo
ChannelMixer_convert_mono_to_stereo(samples) ==
  [j \in 1..(2 * Len(samples)) |-> samples[(j + 1) \div 2]]

\* ChannelMixer::convert_stereo_to_mono: ((l as i32 + r as i32) / 2) as i16 for
\* every whole pair
ChannelMixer_convert_stereo_to_mono(samples) ==
  [j \in 1..(Len(samples) \div 2) |-> TruncDiv(samples[2 * j - 1] + samples[2 * j], 2)]

\* ChannelMixer::apply for target_channels 1 (Mono) or 2 (Stereo); chunks(2)
\* indexes c[1], which aborts on a trailing odd byte
ChannelMixer_apply(target_channels, frame) ==
  IF frame.kind # "audio" THEN frame
  ELSE IF frame.channels = target_channels THEN frame
  ELSE IF Len(frame.data) % 2 = 1 THEN Panic
  ELSE LET input_samples == SamplesOf(frame.data)
           output_samples ==
             IF frame.channels = 1 /\ target_channels = 2
             THEN ChannelMixer_convert_mono_to_stereo(input_samples)
             ELSE IF frame.channels = 2 /\ target_channels = 1
             THEN ChannelMixer_convert_stereo_to_mono(input_samples)
             ELSE input_samples
       IN [frame EXCEPT !.data = SamplesToBytes(output_samples, Len(output_samples)),
                        !.channels = target_channels,
                        !.nb_samples = Len(output_samples) \div target_channels]

\* Normalize::apply, the first loop: max_amplitude over sample.abs().  For
\* -32768 the absolute value does not fit an i16: a build with overflow
\* checks aborts there, one without them gets -32768, which never raises
\* max_amplitude.
RECURSIVE Normalize_max_amplitude(_, _, _, _)
Normalize_max_amplitude(samples, i, acc, overflow_checks) ==
  IF i > Len(samples) THEN [max |-> acc]
  ELSE IF samples[i] = -32768
  THEN IF overflow_checks THEN Panic
       ELSE Normalize_max_amplitude(samples, i + 1, Max(acc, -32768), overflow_checks)
  ELSE Normalize_max_amplitude(samples, i + 1,
                               Max(acc, IF samples[i] < 0 THEN -samples[i] ELSE samples[i]),
                               overflow_checks)

\* Normalize::apply, one sample: (sample as f32 * scale).clamp(..) as i16 with
\* scale = target as f32 / max_amplitude as f32.  The quotient and the product
\* are rounded to f32, an error below 1/256 for results in the i16 range, so
\* where the exact value lies within 1/128 of an integer the truncation may
\* fall on either side of it: the set of values the build may produce.  A
\* scale that is a whole number is exact.
Normalize_scaled(sample, target, max_amplitude) ==
  LET a == IF sample < 0 THEN -sample ELSE sample
      sign(v) == IF sample < 0 THEN -v ELSE v
      q == (a * target) \div max_amplitude
      r == (a * target) % max_amplitude
  IN IF target % max_amplitude = 0 THEN {ClampI16(sign(q))}
     ELSE {ClampI16(sign(q))}
          \cup (IF r * 128 < max_amplitude /\ q >= 1 THEN {ClampI16(sign(q - 1))} ELSE {})
          \cup (IF (max_amplitude - r) * 128 < max_amplitude THEN {ClampI16(sign(q + 1))} ELSE {})

\* the sample sequences whose i-th element is drawn from choices[i]
RECURSIVE SeqChoices(_)
SeqChoices(choices) ==
  IF choices = << >> THEN { << >> }
  ELSE {<< h >> \o t : h \in Head(choices), t \in SeqChoices(Tail(choices))}

\* Normalize::apply with target = (32767.0 * target_peak) as i16: the frames
\* (or the abort) the call may return
Normalize_apply(target, overflow_checks, frame) ==
  IF frame.kind # "audio" THEN {frame}
  ELSE LET samples == SamplesOf(frame.data)
           tail == SubSeq(frame.data, 2 * Len(samples) + 1, Len(frame.data))
       IN IF Len(samples) = 0 THEN {frame}
          ELSE LET m == Normalize_max_amplitude(samples, 1, 0, overflow_checks) IN
               IF IsPanic(m) THEN {Panic}
               ELSE IF m.max = 0 THEN {frame}
               ELSE {[frame EXCEPT !.data = SamplesToBytes(out, Len(out)) \o tail] :
                       out \in SeqChoices([i \in 1..Len(samples) |->
                                 Normalize_scaled(samples[i], target, m.max)])}


(***************************************************************************)
(* transform/peak_limiter.rs, rms_limiter.rs, lowpass.rs, eq.rs, fade.rs:  *)
(* the transforms that keep state across frames.  Their gains and filter   *)
(* memories are f32 values; the model keeps a gain as one of GainLevels,   *)
(* held for the length of one frame, and a filter memory as "zero",        *)
(* "finite" or "nan", and computes a sample from the gain in force.        *)
(***************************************************************************)
\* the first nb_samples * channels samples of `data` replaced by f(i, sample),
\* i the index of the sample-frame; the bytes after them stay
MapSampleFrames(data, channels, nb_samples, f(_, _)) ==
  [b \in 1..Len(data) |->
     LET k == (b + 1) \div 2 IN
     IF k > nb_samples * channels THEN data[b]
     ELSE I16ToLE(f((k - 1) \div channels, I16FromLE(data[2 * k - 1], data[2 * k])))[2 - (b % 2)]]

\* the values of a limiter's current_gain the model tells apart
GainLevels == { [num |-> 1, den |-> 1], [num |-> 1, den |-> 2] }

\* (sample / 32768.0 * gain * 32767.0).clamp(-32768.0, 32767.0) as i16
ScaledSample(sample, gain) ==
  ClampI16(TruncDiv(sample * 32767 * gain.num, 32768 * gain.den))

\* PeakLimiter::new
PeakLimiter_new == [current_gain |-> [num |-> 1, den |-> 1]]

\* PeakLimiter::apply; gain is the current_gain the loop ends with
PeakLimiter_apply(st, frame, gain) ==
  IF frame.kind # "audio" \/ Len(frame.data) < 2 THEN [st |-> st, out |-> frame]
  ELSE [st |-> [st EXCEPT !.current_gain = gain],
        out |-> [frame EXCEPT !.data = MapSamples(frame.data, LAMBDA x : ScaledSample(x, gain))]]

\* RmsLimiter::new for a window of window_samples
RmsLimiter_new(window_samples) ==
  [window_samples |-> Max(window_samples, 1), current_gain |-> [num |-> 1, den |-> 1],
   rms_buffer |-> "zero", buffer_pos |-> 0]

\* RmsLimiter::apply; gain is the current_gain the loop ends with
RmsLimiter_apply(st, frame, gain) ==
  IF frame.kind # "audio" \/ Len(frame.data) < 2 THEN [st |-> st, out |-> frame]
  ELSE [st |-> [st EXCEPT !.current_gain = gain, !.rms_buffer = "finite",
                          !.buffer_pos = (st.buffer_pos + Len(frame.data) \div 2)
                                            % st.window_samples],
        out |-> [frame EXCEPT !.data = MapSamples(frame.data, LAMBDA x : ScaledSample(x, gain))]]

\* Lowpass::new
Lowpass_new == [sample_rate |-> 0, coeffs |-> "none", states |-> 0, memory |-> "zero"]

\* Lowpass::calculate_coeffs: omega = 2 PI cutoff / sample_rate is infinite
\* for sample_rate 0, its sine and every coefficient NaN
Lowpass_calculate_coeffs(st, sample_rate) ==
  [st EXCEPT !.sample_rate = sample_rate,
             !.coeffs = IF sample_rate = 0 THEN "nan" ELSE "finite"]

\* Lowpass::apply; gain stands for the response of the filter.
\* process_sample unwraps coeffs, which aborts when they were never
\* calculated; NaN coefficients or memory give NaN, which `as i16` turns to 0.
Lowpass_apply(st, frame, gain) ==
  IF frame.kind # "audio" THEN [st |-> st, out |-> frame]
  ELSE LET s1 == IF st.sample_rate # frame.sample_rate
                 THEN Lowpass_calculate_coeffs(st, frame.sample_rate) ELSE st
           s2 == IF s1.states # frame.channels
                 THEN [s1 EXCEPT !.states = frame.channels, !.memory = "zero"] ELSE s1
           count == frame.nb_samples * frame.channels
       IN IF count = 0 THEN [st |-> s2, out |-> frame]
          ELSE IF Len(frame.data) < 2 * count THEN [st |-> s2, out |-> Panic]
          ELSE IF s2.coeffs = "none" THEN [st |-> s2, out |-> Panic]
          ELSE IF s2.coeffs = "nan" \/ s2.memory = "nan"
          THEN [st |-> [s2 EXCEPT !.memory = "nan"],
                out |-> [frame EXCEPT !.data = MapSampleFrames(frame.data, frame.channels,
                                        frame.nb_samples, LAMBDA i, x : 0)]]
          ELSE [st |-> [s2 EXCEPT !.memory = "finite"],
                out |-> [frame EXCEPT !.data = MapSampleFrames(frame.data, frame.channels,
                                        frame.nb_samples, LAMBDA i, x : ScaledSample(x, gain))]]

\* Equalizer::new(bands)
Equalizer_new(bands) ==
  [bands |-> bands, sample_rate |-> 44100, initialized |-> FALSE, coeffs |-> "none",
   states |-> 0, memory |-> "zero"]

\* Equalizer::apply; process_sample indexes states[channel][band] for every
\* band, which aborts for a channel the states were not sized for
Equalizer_apply(st, frame, gain) ==
  IF frame.kind # "audio" THEN [st |-> st, out |-> frame]
  ELSE LET s1 == IF ~st.initialized \/ st.sample_rate # frame.sample_rate
                 THEN [st EXCEPT !.sample_rate = frame.sample_rate,
                                 !.coeffs = IF frame.sample_rate = 0 THEN "nan" ELSE "finite",
                                 !.states = frame.channels, !.memory = "zero",
                                 !.initialized = TRUE]
                 ELSE st
           count == frame.nb_samples * frame.channels
       IN IF count = 0 THEN [st |-> s1, out |-> frame]
          ELSE IF Len(frame.data) < 2 * count THEN [st |-> s1, out |-> Panic]
          ELSE IF s1.bands > 0 /\ frame.channels > s1.states THEN [st |-> s1, out |-> Panic]
          ELSE IF s1.bands > 0 /\ (s1.coeffs = "nan" \/ s1.memory = "nan")
          THEN [st |-> [s1 EXCEPT !.memory = "nan"],
                out |-> [frame EXCEPT !.data = MapSampleFrames(frame.data, frame.channels,
                                        frame.nb_samples, LAMBDA i, x : 0)]]
          ELSE [st |-> [s1 EXCEPT !.memory = IF s1.bands > 0 THEN "finite" ELSE s1.memory],
                out |-> [frame EXCEPT !.data = MapSampleFrames(frame.data, frame.channels,
                                        frame.nb_samples,
                                        LAMBDA i, x : ScaledSample(x, IF s1.bands > 0 THEN gain
                                                                     ELSE [num |-> 1, den |-> 1]))]]

\* FadeIn::new / FadeOut::from_sample_count / Crossfade::new.  The durations
\* of the model are 0 or a power of two, for which the f32 gains
\* current_sample / duration_samples and their products are exact.
FadeIn_new(duration_samples) == [duration_samples |-> duration_samples, current_sample |-> 0]
FadeOut_from_sample_count(duration_samples, total_samples) ==
  [duration_samples |-> duration_samples, total_samples |-> total_samples, current_sample |-> 0]
Crossfade_new(duration_samples, channels, in_crossfade) ==
  [duration_samples |-> duration_samples, current_sample |-> 0,
   crossfade_buffer |-> [i \in 1..(duration_samples * channels) |-> 0],
   buffer_pos |-> 0, in_crossfade |-> in_crossfade]

\* mutant: the fade position advances for a frame of any kind
FadeIn_apply_any_frame(st, frame) ==
  IF frame.kind # "audio"
  THEN [st |-> [st EXCEPT !.current_sample = st.current_sample + 1], out |-> frame]
  ELSE [st |-> st, out |-> frame]

\* FadeIn::apply
FadeIn_apply(st, frame) ==
  IF frame.kind # "audio" THEN [st |-> st, out |-> frame]
  ELSE IF frame.nb_samples > 0 /\ Len(frame.data) < 2 * frame.nb_samples * frame.channels
  THEN [st |-> st, out |-> Panic]
  ELSE LET faded(i, x) ==
             IF st.current_sample + i < st.duration_samples
             THEN ClampI16(TruncDiv(x * (st.current_sample + i), st.duration_samples))
             ELSE x
       IN [st |-> [st EXCEPT !.current_sample = st.current_sample + frame.nb_samples],
           out |-> [frame EXCEPT !.data = MapSampleFrames(frame.data, frame.channels,
                                              frame.nb_samples, faded)]]

\* FadeOut::apply: gain = 1.0 - (fade_pos / duration_samples).min(1.0) from
\* fade_start on (0.0 when duration_samples is 0)
FadeOut_apply(st, frame) ==
  IF frame.kind # "audio" THEN [st |-> st, out |-> frame]
  ELSE IF frame.nb_samples > 0 /\ Len(frame.data) < 2 * frame.nb_samples * frame.channels
  THEN [st |-> st, out |-> Panic]
  ELSE LET fade_start == Max(st.total_samples - st.duration_samples, 0)
           faded(i, x) ==
             LET fade_pos == st.current_sample + i - fade_start IN
             IF fade_pos < 0 THEN x
             ELSE IF fade_pos >= st.duration_samples THEN 0
             ELSE ClampI16(TruncDiv(x * (st.duration_samples - fade_pos), st.duration_samples))
       IN [st |-> [st EXCEPT !.current_sample = st.current_sample + frame.nb_samples],
           out |-> [frame EXCEPT !.data = MapSampleFrames(frame.data, frame.channels,
                                              frame.nb_samples, faded)]]

\* Crossfade::apply: the sample-frames mixed before the loop breaks
Crossfade_mixed_frames(st, frame) ==
  Min(frame.nb_samples, Max(st.duration_samples - st.current_sample, 0))

\* Crossfade::apply
Crossfade_apply(st, frame) ==
  IF ~st.in_crossfade THEN [st |-> st, out |-> frame]
  ELSE IF frame.kind # "audio" THEN [st |-> st, out |-> frame]
  ELSE LET n == Crossfade_mixed_frames(st, frame)
           mixed(k, x) ==
             LET position == st.current_sample + ((k - 1) \div frame.channels)
                 buffer_idx == position * frame.channels + ((k - 1) % frame.channels)
                 old_sample == IF buffer_idx < Len(st.crossfade_buffer)
                               THEN st.crossfade_buffer[buffer_idx + 1] ELSE 0
             IN ClampI16(TruncDiv(old_sample * (st.duration_samples - position) + x * position,
                                  st.duration_samples))
       IN IF n > 0 /\ Len(frame.data) < 2 * n * frame.channels THEN [st |-> st, out |-> Panic]
          ELSE [st |-> [st EXCEPT !.current_sample = st.current_sample + n,
                                  !.in_crossfade = ~(n < frame.nb_samples)],
                out |-> [frame EXCEPT !.data =
                   [b \in 1..Len(frame.data) |->
                      LET k == (b + 1) \div 2 IN
                      IF k > n * frame.channels THEN frame.data[b]
                      ELSE I16ToLE(mixed(k, I16FromLE(frame.data[2 * k - 1],
                                                      frame.data[2 * k])))[2 - (b % 2)]]]]

(***************************************************************************)
(* transform/video: the operators on YUV420 frames.  An operator is built  *)
(* for a width and a height of its own and slices the frame's data by      *)
(* them: a Y plane of width * height bytes, then U and V planes of a       *)
(* quarter of that each.                                                   *)
(***************************************************************************)
\* a plane of n bytes, each `fill` until the loops over y in 0..height-1 and
\* x in 0..width-1 store src[src_idx(y, x)] at dst_idx(y, x); both indexes
\* are checked against the lengths, and a later store wins
CopyPlane(src, n, width, height, src_idx(_, _), dst_idx(_, _), fill) ==
  [k \in 1..n |->
     LET hits == {p \in (0..(height - 1)) \X (0..(width - 1)) :
                     /\ src_idx(p[1], p[2]) >= 0
                     /\ src_idx(p[1], p[2]) < Len(src)
                     /\ dst_idx(p[1], p[2]) = k - 1}
     IN IF hits = {} THEN fill
        ELSE LET last == CHOOSE p \in hits :
                           \A q \in hits : q[1] * width + q[2] <= p[1] * width + p[2]
             IN src[src_idx(last[1], last[2]) + 1]]

\* &data[0..y_size], &data[y_size..y_size + uv_size],
\* &data[y_size + uv_size..y_size + 2 * uv_size]
PlaneY(data, y_size) == SubSeq(data, 1, y_size)
PlaneU(data, y_size) == SubSeq(data, y_size + 1, y_size + y_size \div 4)
PlaneV(data, y_size) == SubSeq(data, y_size + y_size \div 4 + 1, y_size + 2 * (y_size \div 4))
\* the slices abort on data shorter than the three planes
PlanesFit(data, y_size) == Len(data) >= y_size + 2 * (y_size \div 4)

\* the frame an operator returns: new data under the frame's own width,
\* height, timebase, stream_index and pts
VideoResult(frame, dst_data) ==
  Frame_new_video(dst_data, frame.width, frame.height, frame.timebase, frame.stream_index,
                  frame.pts)

\* mutant: the mirrored column counted from width instead of width - 1
Flip_dst_idx_from_width(direction, width, height, y, x) ==
  IF direction = "Horizontal" THEN y * width + (width - x)
  ELSE (height - 1 - y) * width + x

\* Flip::flip_plane: the index a pixel is stored at
Flip_dst_idx(direction, width, height, y, x) ==
  IF direction = "Horizontal" THEN y * width + (width - 1 - x)
  ELSE (height - 1 - y) * width + x

\* Flip::flip_plane into a zeroed plane of n bytes
Flip_flip_plane(direction, src, n, width, height) ==
  CopyPlane(src, n, width, height,
            LAMBDA y, x : y * width + x,
            LAMBDA y, x : Flip_dst_idx(direction, width, height, y, x), 0)

\* Flip::apply_yuv420
Flip_apply_yuv420(op, frame) ==
  IF frame.kind # "video" THEN frame
  ELSE LET y_size == op.width * op.height
           uv_size == y_size \div 4
       IN IF ~PlanesFit(frame.data, y_size) THEN Panic
          ELSE VideoResult(frame,
                 Flip_flip_plane(op.direction, PlaneY(frame.data, y_size), y_size,
                                 op.width, op.height)
                 \o Flip_flip_plane(op.direction, PlaneU(frame.data, y_size), uv_size,
                                    op.width \div 2, op.height \div 2)
                 \o Flip_flip_plane(op.direction, PlaneV(frame.data, y_size), uv_size,
                                    op.width \div 2, op.height \div 2))

\* Crop::new clamps the rectangle to the source
Crop_new(src_width, src_height, x, y, width, height) ==
  LET cx == Min(x, src_width)
      cy == Min(y, src_height)
  IN [src_width |-> src_width, src_height |-> src_height, x |-> cx, y |-> cy,
      width |-> Min(width, src_width - cx), height |-> Min(height, src_height - cy)]

\* Crop::crop_plane into a zeroed plane of n bytes
Crop_crop_plane(src, n, src_w, x, y, width, height) ==
  CopyPlane(src, n, width, height,
            LAMBDA row, col : (y + row) * src_w + (x + col),
            LAMBDA row, col : row * width + col, 0)

\* Crop::apply_yuv420
Crop_apply_yuv420(op, frame) ==
  IF frame.kind # "video" THEN frame
  ELSE LET src_y_size == op.src_width * op.src_height
           dst_y_size == op.width * op.height
           uv(src) == Crop_crop_plane(src, dst_y_size \div 4, op.src_width \div 2,
                                      op.x \div 2, op.y \div 2, op.width \div 2, op.height \div 2)
       IN IF ~PlanesFit(frame.data, src_y_size) THEN Panic
          ELSE VideoResult(frame,
                 Crop_crop_plane(PlaneY(frame.data, src_y_size), dst_y_size, op.src_width,
                                 op.x, op.y, op.width, op.height)
                 \o uv(PlaneU(frame.data, src_y_size)) \o uv(PlaneV(frame.data, src_y_size)))

\* Rotate::output_dimensions
Rotate_output_dimensions(op) ==
  IF op.angle = "Rotate180" THEN << op.width, op.height >> ELSE << op.height, op.width >>

\* Rotate::rotate_plane into a zeroed plane of n bytes
Rotate_rotate_plane(angle, src, n, src_w, src_h) ==
  LET dst_w == IF angle = "Rotate180" THEN src_w ELSE src_h
      dst_x(y, x) == IF angle = "Rotate90" THEN src_h - 1 - y
                     ELSE IF angle = "Rotate180" THEN src_w - 1 - x ELSE y
      dst_y(y, x) == IF angle = "Rotate90" THEN x
                     ELSE IF angle = "Rotate180" THEN src_h - 1 - y ELSE src_w - 1 - x
  IN CopyPlane(src, n, src_w, src_h,
               LAMBDA y, x : y * src_w + x,
               LAMBDA y, x : dst_y(y, x) * dst_w + dst_x(y, x), 0)

\* Rotate::apply_yuv420
Rotate_apply_yuv420(op, frame) ==
  IF frame.kind # "video" THEN frame
  ELSE LET y_size == op.width * op.height
           dims == Rotate_output_dimensions(op)
           dst_y_size == dims[1] * dims[2]
           uv(src) == Rotate_rotate_plane(op.angle, src, dst_y_size \div 4,
                                          op.width \div 2, op.height \div 2)
       IN IF ~PlanesFit(frame.data, y_size) THEN Panic
          ELSE VideoResult(frame,
                 Rotate_rotate_plane(op.angle, PlaneY(frame.data, y_size), dst_y_size,
                                     op.width, op.height)
                 \o uv(PlaneU(frame.data, y_size)) \o uv(PlaneV(frame.data, y_size)))

RECURSIVE SumBytes(_, _)
\* the sum of src over a set of 0-based indexes
SumBytes(src, idxs) ==
  IF idxs = {} THEN 0
  ELSE LET i == CHOOSE j \in idxs : TRUE IN src[i + 1] + SumBytes(src, idxs \ {i})

\* Blur::box_blur into a zeroed plane of n bytes: the mean of the pixels of
\* the (2r+1)-square that lie inside the plane
Blur_box_blur(radius, src, n, width, height) ==
  [k \in 1..n |->
     LET y == (k - 1) \div width
         x == (k - 1) % width
         window == {ny * width + nx : ny \in (Max(y - radius, 0))..(Min(y + radius, height - 1)),
                                      nx \in (Max(x - radius, 0))..(Min(x + radius, width - 1))}
         idxs == {i \in window : i < Len(src)}
     IN IF width = 0 \/ y >= height \/ idxs = {} THEN 0
        ELSE (SumBytes(src, idxs) \div Cardinality(idxs)) % 256]

\* Blur::apply_yuv420
Blur_apply_yuv420(op, frame) ==
  IF frame.kind # "video" THEN frame
  ELSE LET y_size == op.width * op.height
           uv(src) == Blur_box_blur(op.radius, src, y_size \div 4,
                                    op.width \div 2, op.height \div 2)
       IN IF ~PlanesFit(frame.data, y_size) THEN Panic
          ELSE VideoResult(frame,
                 Blur_box_blur(op.radius, PlaneY(frame.data, y_size), y_size,
                               op.width, op.height)
                 \o uv(PlaneU(frame.data, y_size)) \o uv(PlaneV(frame.data, y_size)))

\* Brightness, one luma byte: (y + factor * 255.0).clamp(0.0, 255.0) as u8.
\* The factors of the model make factor * 255.0 a whole number of halves,
\* half_steps of them, for which the f32 sum is exact; `as u8` drops the half.
Brightness_adjust(half_steps, y) ==
  LET twice == 2 * y + half_steps
  IN IF twice <= 0 THEN 0 ELSE IF twice >= 510 THEN 255 ELSE twice \div 2

\* Brightness::apply_yuv420: the first width * height bytes of a copy of data
Brightness_apply_yuv420(op, frame) ==
  IF frame.kind # "video" THEN frame
  ELSE IF Len(frame.data) < op.width * op.height THEN Panic
  ELSE VideoResult(frame,
         [i \in 1..Len(frame.data) |->
            IF i <= op.width * op.height THEN Brightness_adjust(op.half_steps, frame.data[i])
            ELSE frame.data[i]])

\* Pad::new: the fill colour is black (16, 128, 128)
Pad_new(src_width, src_height, dst_width, dst_height, x, y) ==
  [src_width |-> src_width, src_height |-> src_height, dst_width |-> dst_width,
   dst_height |-> dst_height, x |-> x, y |-> y, fill_y |-> 16, fill_u |-> 128, fill_v |-> 128]

\* Pad::copy_plane into a plane of n bytes holding the fill colour
Pad_copy_plane(src, n, src_w, src_h, dst_w, x, y, fill) ==
  CopyPlane(src, n, src_w, src_h,
            LAMBDA row, col : row * src_w + col,
            LAMBDA row, col : (y + row) * dst_w + (x + col), fill)

\* Pad::apply_yuv420
Pad_apply_yuv420(op, frame) ==
  IF frame.kind # "video" THEN frame
  ELSE LET src_y_size == op.src_width * op.src_height
           dst_y_size == op.dst_width * op.dst_height
           uv(src, fill) == Pad_copy_plane(src, dst_y_size \div 4, op.src_width \div 2,
                                           op.src_height \div 2, op.dst_width \div 2,
                                           op.x \div 2, op.y \div 2, fill)
       IN IF ~PlanesFit(frame.data, src_y_size) THEN Panic
          ELSE VideoResult(frame,
                 Pad_copy_plane(PlaneY(frame.data, src_y_size), dst_y_size, op.src_width,
                                op.src_height, op.dst_width, op.x, op.y, op.fill_y)
                 \o uv(PlaneU(frame.data, src_y_size), op.fill_u)
                 \o uv(PlaneV(frame.data, src_y_size), op.fill_v))

\* Scale::scale_nearest into a zeroed plane of n bytes.  The sizes of the
\* model make src / dst a power of two, for which x as f64 * x_ratio is exact.
Scale_scale_nearest(src, n, src_w, src_h, dst_w, dst_h) ==
  CopyPlane(src, n, dst_w, dst_h,
            LAMBDA y, x : ((y * src_h) \div dst_h) * src_w + ((x * src_w) \div dst_w),
            LAMBDA y, x : y * dst_w + x, 0)

\* get_pixel of Scale::scale_bilinear
Scale_get_pixel(src, src_w, px, py) ==
  IF py * src_w + px < Len(src) THEN src[py * src_w + px + 1] ELSE 0

\* Scale::scale_bilinear into a zeroed plane of n bytes.  The ratios are
\* (src - 1) / max(dst - 1, 1); the sizes of the model make them whole
\* numbers, for which the f64 arithmetic is exact.
Scale_scale_bilinear(src, n, src_w, src_h, dst_w, dst_h) ==
  LET x_den == Max(dst_w - 1, 1)
      y_den == Max(dst_h - 1, 1)
  IN [k \in 1..n |->
        LET y == (k - 1) \div dst_w
            x == (k - 1) % dst_w
            x0 == (x * (src_w - 1)) \div x_den
            y0 == (y * (src_h - 1)) \div y_den
            x1 == Min(x0 + 1, src_w - 1)
            y1 == Min(y0 + 1, src_h - 1)
            x_frac == (x * (src_w - 1)) % x_den
            y_frac == (y * (src_h - 1)) % y_den
            top == Scale_get_pixel(src, src_w, x0, y0) * (x_den - x_frac)
                     + Scale_get_pixel(src, src_w, x1, y0) * x_frac
            bottom == Scale_get_pixel(src, src_w, x0, y1) * (x_den - x_frac)
                        + Scale_get_pixel(src, src_w, x1, y1) * x_frac
        IN IF dst_w = 0 \/ y >= dst_h THEN 0
           ELSE (top * (y_den - y_frac) + bottom * y_frac) \div (x_den * y_den)]

\* Scale::scale_plane
Scale_scale_plane(scale_mode, src, n, src_w, src_h, dst_w, dst_h) ==
  IF scale_mode = "NearestNeighbor" THEN Scale_scale_nearest(src, n, src_w, src_h, dst_w, dst_h)
  ELSE Scale_scale_bilinear(src, n, src_w, src_h, dst_w, dst_h)

\* Scale::apply_yuv420
Scale_apply_yuv420(op, frame) ==
  IF frame.kind # "video" THEN frame
  ELSE LET src_y_size == op.src_width * op.src_height
           dst_y_size == op.target_width * op.target_height
           uv(src) == Scale_scale_plane(op.mode, src, dst_y_size \div 4,
                                        op.src_width \div 2, op.src_height \div 2,
                                        op.target_width \div 2, op.target_height \div 2)
       IN IF ~PlanesFit(frame.data, src_y_size) THEN Panic
          ELSE VideoResult(frame,
                 Scale_scale_plane(op.mode, PlaneY(frame.data, src_y_size), dst_y_size,
                                   op.src_width, op.src_height,
                                   op.target_width, op.target_height)
                 \o uv(PlaneU(frame.data, src_y_size)) \o uv(PlaneV(frame.data, src_y_size)))

(***************************************************************************)
(* codecs/adpcm: IMA ADPCM. AdpcmState (codecs/adpcm/mod.rs) is not part   *)
(* of the sources at hand; it follows the specification's section 4.2.2    *)
(* with the IMA reference tables.                                          *)
(***************************************************************************)
IMA_INDEX_TABLE == << -1, -1, -1, -1, 2, 4, 6, 8, -1, -1, -1, -1, 2, 4, 6, 8 >>
IMA_STEP_TABLE ==
  << 7, 8, 9, 10, 11, 12, 13, 14, 16, 17, 19, 21, 23, 25, 28, 31, 34, 37, 41, 45, 50, 55,
     60, 66, 73, 80, 88, 97, 107, 118, 130, 143, 157, 173, 190, 209, 230, 253, 279, 307,
     337, 371, 408, 449, 494, 544, 598, 658, 724, 796, 876, 963, 1060, 1166, 1282, 1411,
     1552, 1707, 1878, 2066, 2272, 2499, 2749, 3024, 3327, 3660, 4026, 4428, 4871, 5358,
     5894, 6484, 7132, 7845, 8630, 9493, 10442, 11487, 12635, 13899, 15289, 16818, 18500,
     20350, 22385, 24623, 27086, 29794, 32767 >>

\* AdpcmState::new: "Initial state is zero"
AdpcmState_new == [predictor |-> 0, step_index |-> 0]

\* AdpcmState::decode_sample: the state after the nibble; its predictor is the sample
AdpcmState_decode_sample(st, nibble) ==
  LET step == IMA_STEP_TABLE[st.step_index + 1]
      mag == (step \div 8) + (IF nibble % 2 = 1 THEN step \div 4 ELSE 0)
             + (IF (nibble \div 2) % 2 = 1 THEN step \div 2 ELSE 0)
             + (IF (nibble \div 4) % 2 = 1 THEN step ELSE 0)
      diff == IF nibble >= 8 THEN -mag ELSE mag
  IN [predictor |-> ClampI16(st.predictor + diff),
      step_index |-> Max(0, Min(88, st.step_index + IMA_INDEX_TABLE[nibble + 1]))]

\* AdpcmState::encode_sample: "the nibble minimising |sample - predictor| under the current step"
AdpcmState_encode_nibble(st, sample) ==
  LET dist(n) == LET d == sample - AdpcmState_decode_sample(st, n).predictor
                 IN IF d < 0 THEN -d ELSE d
  IN CHOOSE n \in 0..15 :
       \A m \in 0..15 : dist(n) < dist(m) \/ (dist(n) = dist(m) /\ n <= m)

\* AdpcmDecoder::new
AdpcmDecoder_new(fmt) ==
  [format |-> fmt, states |-> [ch \in 1..fmt.channels |-> AdpcmState_new]]

\* AdpcmDecoder::decode, the loop over packet.data from byte i (counted from 0):
\* the low nibble goes to state (2i) % channels, the high one to (2i + 1) % channels
RECURSIVE AdpcmDecoder_decode_loop(_, _, _, _, _)
AdpcmDecoder_decode_loop(states, data, i, channels, output) ==
  IF i >= Len(data) THEN [states |-> states, output |-> output]
  ELSE LET byte == data[i + 1]
           channel == (i * 2) % channels
           st1 == AdpcmState_decode_sample(states[channel + 1], LowNibble(byte))
           states1 == [states EXCEPT ![channel + 1] = st1]
           channel2 == ((i * 2) + 1) % channels
           st2 == AdpcmState_decode_sample(states1[channel2 + 1], HighNibble(byte))
           states2 == [states1 EXCEPT ![channel2 + 1] = st2]
       IN AdpcmDecoder_decode_loop(states2, data, i + 1, channels,
             output \o I16ToLE(st1.predictor) \o I16ToLE(st2.predictor))

\* AdpcmDecoder::decode
AdpcmDecoder_decode(dec, packet) ==
  IF packet.data = << >> THEN [codec |-> dec, out |-> None]
  ELSE LET channels == dec.format.channels
           run == AdpcmDecoder_decode_loop(dec.states, packet.data, 0, channels, << >>)
           nb_samples == (Len(run.output) \div 2) \div channels
       IN [codec |-> [dec EXCEPT !.states = run.states],
           out |-> Frame_new_audio(run.output, dec.format.sample_rate, channels, nb_samples,
                                   packet.timebase, packet.stream_index, packet.pts)]

\* AdpcmEncoder::new
AdpcmEncoder_new(timebase, channels) ==
  [timebase |-> timebase, channels |-> channels,
   states |-> [ch \in 1..channels |-> AdpcmState_new]]

\* AdpcmEncoder::encode, the loop over samples.chunks(2) from pair k (counted from 0):
\* the first sample of a pair goes to state 0 % channels, the second to 1 % channels
RECURSIVE AdpcmEncoder_encode_loop(_, _, _, _, _, _)
AdpcmEncoder_encode_loop(states, samples, n, k, channels, output) ==
  IF 2 * k >= n THEN [states |-> states, output |-> output]
  ELSE LET channel1 == 0 % channels
           nibble1 == AdpcmState_encode_nibble(states[channel1 + 1], samples[2 * k + 1])
           states1 == [states EXCEPT ![channel1 + 1] =
                          AdpcmState_decode_sample(states[channel1 + 1], nibble1)]
           has2 == 2 * k + 1 < n
           channel2 == 1 % channels
           nibble2 == IF has2
                      THEN AdpcmState_encode_nibble(states1[channel2 + 1], samples[2 * k + 2])
                      ELSE 0
           states2 == IF has2
                      THEN [states1 EXCEPT ![channel2 + 1] =
                               AdpcmState_decode_sample(states1[channel2 + 1], nibble2)]
                      ELSE states1
       IN AdpcmEncoder_encode_loop(states2, samples, n, k + 1, channels,
                                   Append(output, nibble1 + 16 * nibble2))

\* AdpcmEncoder::encode; Panic is the out-of-bounds c[1] of line 26 on an odd byte count
AdpcmEncoder_encode(enc, frame) ==
  IF Len(frame.data) % 2 = 1 THEN [codec |-> enc, out |-> Panic]
  ELSE LET n == Len(frame.data) \div 2
           run == AdpcmEncoder_encode_loop(enc.states, SamplesOf(frame.data), n, 0,
                                           enc.channels, << >>)
       IN [codec |-> [enc EXCEPT !.states = run.states],
           out |-> Packet_with_pts(Packet_new(run.output, frame.stream_index, enc.timebase),
                                   frame.pts)]

(***************************************************************************)
(* codecs/g711/ulaw.rs. ulaw_decode / ulaw_encode (codecs/g711/mod.rs) are *)
(* not part of the sources at hand; they follow the specification's        *)
(* section 4.2.4 (bias-and-sign) with the G.711 reference constants.       *)
(***************************************************************************)
ULAW_BIAS == 132
ULAW_CLIP == 32635

ulaw_decode(encoded) ==
  LET u == 255 - encoded
      exponent == (u \div 16) % 8
      mantissa == u % 16
      magnitude == ((mantissa * 8 + ULAW_BIAS) * (2 ^ exponent)) - ULAW_BIAS
  IN IF u >= 128 THEN -magnitude ELSE magnitude

ulaw_encode(sample) ==
  LET negative == sample < 0
      mag == Min(IF negative THEN -sample ELSE sample, ULAW_CLIP) + ULAW_BIAS
      exponent == CHOOSE e \in 0..7 : mag \div (2 ^ (e + 7)) = 1 \/ (e = 0 /\ mag < 128)
      mantissa == (mag \div (2 ^ (exponent + 3))) % 16
  IN 255 - ((IF negative THEN 128 ELSE 0) + 16 * exponent + mantissa)

\* UlawDecoder::decode
UlawDecoder_decode(dec, packet) ==
  LET n == Len(packet.data)
      output == SamplesToBytes([i \in 1..n |-> ulaw_decode(packet.data[i])], n)
      nb_samples == (Len(output) \div 2) \div dec.format.channels
  IN [codec |-> dec,
      out |-> Frame_new_audio(output, dec.format.sample_rate, dec.format.channels, nb_samples,
                              packet.timebase, packet.stream_index, packet.pts)]

\* UlawEncoder::encode
UlawEncoder_encode(enc, frame) ==
  LET samples == SamplesOf(frame.data)  \* chunks_exact(2): a trailing odd byte is dropped
      output == [i \in 1..(Len(frame.data) \div 2) |-> ulaw_encode(samples[i])]
  IN [codec |-> enc,
      out |-> Packet_with_pts(Packet_new(output, frame.stream_index, enc.timebase), frame.pts)]

(***************************************************************************)
(* codecs/adpcm/ms.rs: Microsoft ADPCM                                     *)
(***************************************************************************)
MS_ADAPT_TABLE ==
  << 230, 230, 230, 230, 307, 409, 512, 614, 768, 614, 512, 409, 307, 230, 230, 230 >>
MS_COEF1 == << 256, 512, 0, 192, 240, 460, 392 >>
MS_COEF2 == << 0, -256, 0, 64, 0, -208, -232 >>

\* MsAdpcmChannelState::default
MsAdpcmChannelState_default ==
  [sample1 |-> 0, sample2 |-> 0, delta |-> 16, coef1 |-> 256, coef2 |-> 0]

\* ((x as i8) << 4) >> 4: sign extension of a 4-bit value
SignedNibble(x) == IF x >= 8 THEN x - 16 ELSE x

\* (sample1 * coef1 + sample2 * coef2) >> 8
MsAdpcm_prediction(s1, c1, s2, c2) == Shr8(s1 * c1 + s2 * c2)

\* the state update shared by decode_sample and encode_sample for a signed nibble
MsAdpcmChannelState_step(st, nibble) ==
  LET prediction == MsAdpcm_prediction(st.sample1, st.coef1, st.sample2, st.coef2)
      clamped == ClampI16(prediction + nibble * st.delta)
      adapt_index == (nibble + 16) % 16
      new_delta == Shr8(st.delta * MS_ADAPT_TABLE[adapt_index + 1])
  IN [st EXCEPT !.sample2 = st.sample1, !.sample1 = clamped,
                !.delta = WrapI16(Max(new_delta, 16))]

\* MsAdpcmChannelState::decode_sample: the new state; its sample1 is the sample returned
MsAdpcmChannelState_decode_sample(st, nibble) == MsAdpcmChannelState_step(st, nibble)

\* MsAdpcmChannelState::encode_sample, the nibble chosen
MsAdpcmChannelState_encode_nibble(st, sample) ==
  LET prediction == MsAdpcm_prediction(st.sample1, st.coef1, st.sample2, st.coef2)
      diff == sample - prediction
  IN Max(-8, Min(7, TruncDiv(diff, IF st.delta < 0 THEN -st.delta ELSE st.delta)
                    * (IF st.delta < 0 THEN -1 ELSE 1)))

\* MsAdpcmChannelState::encode_sample, the new state
MsAdpcmChannelState_encode_sample(st, sample) ==
  MsAdpcmChannelState_step(st, MsAdpcmChannelState_encode_nibble(st, sample))

\* decode_block, the payload loop from byte pos (counted from 0): the high
\* nibble goes to states[0], the low one to states[0] (mono) or states[1]
RECURSIVE MsAdpcmDecoder_payload(_, _, _, _, _)
MsAdpcmDecoder_payload(states, data, pos, channels, output) ==
  IF pos >= Len(data) THEN output
  ELSE LET byte == data[pos + 1]
           high_nibble == SignedNibble(HighNibble(byte))
           low_nibble == SignedNibble(LowNibble(byte))
           st1 == MsAdpcmChannelState_decode_sample(states[1], high_nibble)
           states1 == [states EXCEPT ![1] = st1]
           second == IF channels = 1 THEN 1 ELSE 2
           st2 == MsAdpcmChannelState_decode_sample(states1[second], low_nibble)
           states2 == [states1 EXCEPT ![second] = st2]
       IN MsAdpcmDecoder_payload(states2, data, pos + 1, channels,
                                 output \o << st1.sample1, st2.sample1 >>)

\* decode_block, the channel states read from the block header: predictor
\* indexes, then deltas, then sample1s, then sample2s, one per channel each
MsAdpcmDecoder_header_states(data, channels) ==
  [ch \in 1..channels |->
     LET predictor_idx == Min(data[ch], 6)
         d == channels + 2 * (ch - 1)
         a == 3 * channels + 2 * (ch - 1)
         b == 5 * channels + 2 * (ch - 1)
     IN [sample1 |-> I16FromLE(data[a + 1], data[a + 2]),
         sample2 |-> I16FromLE(data[b + 1], data[b + 2]),
         delta |-> I16FromLE(data[d + 1], data[d + 2]),
         coef1 |-> MS_COEF1[predictor_idx + 1],
         coef2 |-> MS_COEF2[predictor_idx + 1]]]

\* MsAdpcmDecoder::decode_block
MsAdpcmDecoder_decode_block(data, channels) ==
  IF Len(data) < 7 * channels THEN << >>
  ELSE LET states == MsAdpcmDecoder_header_states(data, channels)
           head == [j \in 1..(2 * channels) |->
                      IF j <= channels THEN states[j].sample2 ELSE states[j - channels].sample1]
       IN MsAdpcmDecoder_payload(states, data, 7 * channels, channels, head)

\* MsAdpcmDecoder::decode
MsAdpcmDecoder_decode(dec, packet) ==
  LET channels == dec.format.channels
      samples == MsAdpcmDecoder_decode_block(packet.data, channels)
      output == SamplesToBytes(samples, Len(samples))
      nb_samples == Len(samples) \div channels
  IN [codec |-> dec,
      out |-> Frame_new_audio(output, dec.format.sample_rate, channels, nb_samples,
                              packet.timebase, packet.stream_index, packet.pts)]

\* MsAdpcmEncoder::find_best_predictor, the squared error of predictor idx (from 0)
\* over samples 2 .. min(n, 10) - 1
RECURSIVE MsAdpcmEncoder_error(_, _, _, _)
MsAdpcmEncoder_error(samples, n, idx, i) ==
  IF i >= Min(n, 10) THEN 0
  ELSE LET prediction == MsAdpcm_prediction(samples[i], MS_COEF1[idx + 1],
                                            samples[i - 1], MS_COEF2[idx + 1])
           diff == samples[i + 1] - prediction
       IN diff * diff + MsAdpcmEncoder_error(samples, n, idx, i + 1)

\* MsAdpcmEncoder::find_best_predictor over the n samples of one channel
MsAdpcmEncoder_find_best_predictor(samples, n) ==
  IF n < 2 THEN 0
  ELSE CHOOSE idx \in 0..6 :
         \A other \in 0..6 :
            LET e == MsAdpcmEncoder_error(samples, n, idx, 2)
                o == MsAdpcmEncoder_error(samples, n, other, 2)
            IN e < o \/ (e = o /\ idx <= other)

\* encode_block, mono payload: two samples of channel 0 per byte, from sample i
RECURSIVE MsAdpcmEncoder_payload_mono(_, _, _, _, _)
MsAdpcmEncoder_payload_mono(st, cs, len, i, output) ==
  IF i + 1 < len
  THEN LET nibble1 == MsAdpcmChannelState_encode_nibble(st, cs[i + 1])
           st1 == MsAdpcmChannelState_step(st, nibble1)
           nibble2 == MsAdpcmChannelState_encode_nibble(st1, cs[i + 2])
           st2 == MsAdpcmChannelState_step(st1, nibble2)
       IN MsAdpcmEncoder_payload_mono(st2, cs, len, i + 2,
             Append(output, 16 * ((nibble1 + 16) % 16) + ((nibble2 + 16) % 16)))
  ELSE IF i < len
  THEN Append(output, 16 * ((MsAdpcmChannelState_encode_nibble(st, cs[i + 1]) + 16) % 16))
  ELSE output

\* encode_block, payload for two or more channels: one sample of channel 0
\* and one of channel 1 per byte, from sample i
RECURSIVE MsAdpcmEncoder_payload_multi(_, _, _, _, _, _, _, _)
MsAdpcmEncoder_payload_multi(st0, st1, cs0, len0, cs1, len1, i, output) ==
  IF i >= len0 THEN output
  ELSE LET nibble_l == MsAdpcmChannelState_encode_nibble(st0, cs0[i + 1])
           nibble_r == MsAdpcmChannelState_encode_nibble(st1, IF i < len1 THEN cs1[i + 1] ELSE 0)
       IN MsAdpcmEncoder_payload_multi(MsAdpcmChannelState_step(st0, nibble_l),
             MsAdpcmChannelState_step(st1, nibble_r), cs0, len0, cs1, len1, i + 1,
             Append(output, 16 * ((nibble_l + 16) % 16) + ((nibble_r + 16) % 16)))

\* encode_block, the channel states the block starts from
MsAdpcmEncoder_initial_states(samples, n, channels) ==
  LET len == [ch \in 1..channels |-> ChannelLen(n, ch - 1, channels)]
      channel_samples == [ch \in 1..channels |-> ChannelSamples(samples, n, ch - 1, channels)]
      predictors == [ch \in 1..channels |->
                        MsAdpcmEncoder_find_best_predictor(channel_samples[ch], len[ch])]
  IN [ch \in 1..channels |->
         LET s1 == channel_samples[ch][1]
             s2 == channel_samples[ch][2]
             diff == WrapI16(IF s2 >= s1 THEN s2 - s1 ELSE s1 - s2)
         IN [sample1 |-> IF len[ch] >= 2 THEN channel_samples[ch][2] ELSE 0,
             sample2 |-> IF len[ch] >= 1 THEN channel_samples[ch][1] ELSE 0,
             delta |-> IF len[ch] >= 2 THEN Max(diff, 16) ELSE 16,
             coef1 |-> MS_COEF1[predictors[ch] + 1],
             coef2 |-> MS_COEF2[predictors[ch] + 1]]]

\* MsAdpcmEncoder::encode_block over n interleaved samples
MsAdpcmEncoder_encode_block(samples, n, channels) ==
  LET len == [ch \in 1..channels |-> ChannelLen(n, ch - 1, channels)]
      channel_samples == [ch \in 1..channels |-> ChannelSamples(samples, n, ch - 1, channels)]
      predictors == [ch \in 1..channels |->
                        MsAdpcmEncoder_find_best_predictor(channel_samples[ch], len[ch])]
      states == MsAdpcmEncoder_initial_states(samples, n, channels)
      header == [j \in 1..(7 * channels) |->
         IF j <= channels THEN predictors[j]
         ELSE LET k == j - channels - 1
                  field == k \div (2 * channels)
                  ch == ((k \div 2) % channels) + 1
                  v == IF field = 0 THEN states[ch].delta
                       ELSE IF field = 1 THEN states[ch].sample1 ELSE states[ch].sample2
              IN I16ToLE(v)[(k % 2) + 1]]
  IN IF channels = 1
     THEN MsAdpcmEncoder_payload_mono(states[1], channel_samples[1], len[1], 2, header)
     ELSE MsAdpcmEncoder_payload_multi(states[1], states[2], channel_samples[1], len[1],
                                       channel_samples[2], len[2], 2, header)

\* MsAdpcmEncoder::encode
MsAdpcmEncoder_encode(enc, frame) ==
  LET n == Len(frame.data) \div 2
      output == MsAdpcmEncoder_encode_block(SamplesOf(frame.data), n, enc.channels)
  IN [codec |-> enc,
      out |-> Packet_with_pts(Packet_new(output, frame.stream_index, enc.timebase), frame.pts)]

(***************************************************************************)
(* codecs/flac. decode_frame / encode_frame (codecs/flac/frame.rs) are not *)
(* part of the sources at hand: what decode_frame returns for a packet is  *)
(* an input of the model, and encode_frame is reduced to what the          *)
(* specification's section 4.2.5 states (frame number in the header,       *)
(* verbatim subframes per channel).                                        *)
(***************************************************************************)
\* byte k (from 0) of an integer in two's complement, little-endian
ByteOf(x, k) == (x \div (256 ^ k)) % 256
\* `data[offset] as i8 as i32`
I8Of(b) == IF b >= 128 THEN b - 256 ELSE b

\* ((bits_per_sample + 7) / 8) as usize
Flac_bytes_per_sample(stream_info) == (stream_info.bits_per_sample + 7) \div 8

\* FlacStreamInfo as built by FlacEncoder::new / FlacDecoder::new
FlacStreamInfo(sample_rate, channels, bits_per_sample, block_size) ==
  [min_block_size |-> block_size, max_block_size |-> block_size,
   min_frame_size |-> 0, max_frame_size |-> 0, sample_rate |-> sample_rate,
   channels |-> channels, bits_per_sample |-> bits_per_sample, total_samples |-> 0]

\* FlacDecoder::samples_to_bytes aborts on the out-of-bounds samples[ch][i] of
\* line 42 when a channel is shorter than channel 0
FlacDecoder_samples_ragged(samples) ==
  \E ch \in 1..Len(samples) : Len(samples[ch]) < Len(samples[1])

\* FlacDecoder::samples_to_bytes
FlacDecoder_samples_to_bytes(stream_info, samples) ==
  LET channels == Len(samples)
  IN IF channels = 0 THEN << >>
     ELSE LET block_size == Len(samples[1])
              bps == Flac_bytes_per_sample(stream_info)
              width == IF bps \in 1..4 THEN bps ELSE 0
          IN [b \in 1..(block_size * channels * width) |->
                LET i == (b - 1) \div (channels * width)
                    ch == ((b - 1) \div width) % channels
                IN ByteOf(samples[ch + 1][i + 1], (b - 1) % width)]

\* FlacDecoder::decode; flac_frame is what decode_frame returned for packet.data
FlacDecoder_decode(dec, packet, flac_frame) ==
  IF IsErr(flac_frame) THEN [codec |-> dec, out |-> flac_frame]
  ELSE LET output == FlacDecoder_samples_to_bytes(dec.stream_info, flac_frame.samples)
       IN [codec |-> dec,
           out |-> IF FlacDecoder_samples_ragged(flac_frame.samples) THEN Panic
                   ELSE Frame_new_audio(output, dec.stream_info.sample_rate,
                           dec.stream_info.channels, flac_frame.block_size,
                           packet.timebase, packet.stream_index, packet.pts)]

\* FlacEncoder::new
FlacEncoder_new(sample_rate, channels, bits_per_sample, block_size) ==
  [stream_info |-> FlacStreamInfo(sample_rate, channels, bits_per_sample, block_size),
   timebase |-> Timebase_new(1, sample_rate), frame_count |-> 0]

\* FlacEncoder::bytes_to_samples, the sample at `offset` (from 0)
FlacEncoder_sample_at(data, offset, bps) ==
  IF bps = 1 THEN I8Of(data[offset + 1])
  ELSE IF bps = 2 THEN I16FromLE(data[offset + 1], data[offset + 2])
  ELSE IF bps = 3 THEN data[offset + 1] + 256 * data[offset + 2] + 65536 * I8Of(data[offset + 3])
  ELSE IF bps = 4 THEN data[offset + 1] + 256 * data[offset + 2] + 65536 * data[offset + 3]
                       + 16777216 * I8Of(data[offset + 4])
  ELSE 0

\* FlacEncoder::bytes_to_samples
FlacEncoder_bytes_to_samples(stream_info, data) ==
  LET channels == stream_info.channels
      bps == Flac_bytes_per_sample(stream_info)
      frame_size == channels * bps
  IN IF Len(data) < frame_size \/ channels = 0 THEN [ch \in 1..channels |-> << >>]
     ELSE LET num_samples == Len(data) \div frame_size
          IN [ch \in 1..channels |->
                [i \in 1..num_samples |->
                    FlacEncoder_sample_at(data, (i - 1) * frame_size + (ch - 1) * bps, bps)]]

\* encode_frame: sync code, frame number, then each channel's samples verbatim
flac_encode_frame(samples, frame_number, stream_info) ==
  LET bps == Flac_bytes_per_sample(stream_info)
      block_size == Len(samples[1])
      body == [b \in 1..(Len(samples) * block_size * bps) |->
                 LET ch == (b - 1) \div (block_size * bps)
                     i == ((b - 1) \div bps) % block_size
                 IN ByteOf(samples[ch + 1][i + 1], bps - 1 - ((b - 1) % bps))]
  IN << 255, 248, frame_number % 128 >> \o body

\* mutant: the frame counter advances on every call, packet or not
FlacEncoder_encode_counts_every_call(enc, frame) ==
  LET samples == FlacEncoder_bytes_to_samples(enc.stream_info, frame.data)
      next == [enc EXCEPT !.frame_count = enc.frame_count + 1]
  IN IF Len(samples) = 0 \/ Len(samples[1]) = 0 THEN [codec |-> next, out |-> None]
     ELSE [codec |-> next,
           out |-> Packet_with_pts(Packet_new(flac_encode_frame(samples, enc.frame_count,
                                                                enc.stream_info),
                                              frame.stream_index, enc.timebase), frame.pts)]

\* FlacEncoder::encode
FlacEncoder_encode(enc, frame) ==
  LET samples == FlacEncoder_bytes_to_samples(enc.stream_info, frame.data)
  IN IF Len(samples) = 0 \/ Len(samples[1]) = 0 THEN [codec |-> enc, out |-> None]
     ELSE LET encoded == flac_encode_frame(samples, enc.frame_count, enc.stream_info)
          IN [codec |-> [enc EXCEPT !.frame_count = enc.frame_count + 1],
              out |-> Packet_with_pts(Packet_new(encoded, frame.stream_index, enc.timebase),
                                      frame.pts)]

(***************************************************************************)
(* codecs/mp3: FrameHeader::parse and Mp3Decoder. BitReader (mp3/bits.rs)  *)
(* reads most-significant bit first; Layer3Decoder (mp3/layer3.rs) is not  *)
(* part of the sources at hand: what decode_frame returns for each frame   *)
(* is an input of the model.                                               *)
(***************************************************************************)
BITRATE_TABLE ==
  << << << 0, 32, 64, 96, 128, 160, 192, 224, 256, 288, 320, 352, 384, 416, 448 >>,
        << 0, 32, 48, 56, 64, 80, 96, 112, 128, 160, 192, 224, 256, 320, 384 >>,
        << 0, 32, 40, 48, 56, 64, 80, 96, 112, 128, 160, 192, 224, 256, 320 >> >>,
     << << 0, 32, 48, 56, 64, 80, 96, 112, 128, 144, 160, 176, 192, 224, 256 >>,
        << 0, 8, 16, 24, 32, 40, 48, 56, 64, 80, 96, 112, 128, 144, 160 >>,
        << 0, 8, 16, 24, 32, 40, 48, 56, 64, 80, 96, 112, 128, 144, 160 >> >> >>
SAMPLE_RATE_TABLE ==
  << << 44100, 48000, 32000 >>, << 22050, 24000, 16000 >>, << 11025, 12000, 8000 >> >>

\* FrameHeader::parse of the bytes of data from offset `off` (counted from 0)
FrameHeader_parse(data, off) ==
  IF Len(data) - off < 4 THEN None
  ELSE LET b1 == data[off + 1]
           b2 == data[off + 2]
           b3 == data[off + 3]
           b4 == data[off + 4]
           sync == b1 * 8 + (b2 \div 32)
           version_bits == (b2 \div 8) % 4
           layer_bits == (b2 \div 2) % 4
           bitrate_index == b3 \div 16
           sample_rate_index == (b3 \div 4) % 4
           padding == (b3 \div 2) % 2 = 1
           channel_mode_bits == b4 \div 64
       IN IF sync # 2047 \/ version_bits = 1 \/ layer_bits = 0 THEN None
          ELSE IF bitrate_index = 0 \/ bitrate_index = 15 \/ sample_rate_index = 3 THEN None
          ELSE LET version == IF version_bits = 0 THEN "Mpeg25"
                              ELSE IF version_bits = 2 THEN "Mpeg2" ELSE "Mpeg1"
                   layer == IF layer_bits = 1 THEN "Layer3"
                            ELSE IF layer_bits = 2 THEN "Layer2" ELSE "Layer1"
                   version_idx == IF version = "Mpeg1" THEN 0 ELSE 1
                   layer_idx == IF layer = "Layer1" THEN 0 ELSE IF layer = "Layer2" THEN 1 ELSE 2
                   sr_version_idx == IF version = "Mpeg1" THEN 0
                                     ELSE IF version = "Mpeg2" THEN 1 ELSE 2
                   bitrate == BITRATE_TABLE[version_idx + 1][layer_idx + 1][bitrate_index + 1] * 1000
                   sample_rate == SAMPLE_RATE_TABLE[sr_version_idx + 1][sample_rate_index + 1]
                   pad == IF padding THEN 1 ELSE 0
                   samples_per_frame == IF layer = "Layer3" /\ version # "Mpeg1" THEN 576 ELSE 1152
                   frame_size == IF layer = "Layer1"
                                 THEN (((12 * bitrate) \div sample_rate) + pad) * 4
                                 ELSE (((samples_per_frame * bitrate) \div 8) \div sample_rate) + pad
               IN [version |-> version, layer |-> layer, bitrate |-> bitrate,
                   sample_rate |-> sample_rate, padding |-> padding,
                   mono |-> channel_mode_bits = 3, frame_size |-> frame_size,
                   channels |-> IF channel_mode_bits = 3 THEN 1 ELSE 2]

\* what Layer3Decoder::decode_frame may return for a frame: None, or a vector
\* of interleaved samples, per_channel of them for each channel of the header
Layer3Results == { None, [per_channel |-> 1], [per_channel |-> 2] }
Layer3Samples(r, channels) == [i \in 1..(r.per_channel * channels) |-> 100 * i]

\* Mp3Decoder::new
Mp3Decoder_new(sample_rate, channels) ==
  [sample_rate |-> sample_rate, channels |-> channels, residual_data |-> << >>]

\* Mp3Decoder::decode, the loop over the residual buffer from `offset`; l3 is the
\* sequence of results Layer3Decoder::decode_frame gives for the frames it is
\* handed: None, or the number of samples per channel of the vector returned
RECURSIVE Mp3Decoder_decode_loop(_, _, _, _)
Mp3Decoder_decode_loop(residual_data, offset, l3, acc) ==
  IF offset + 4 > Len(residual_data) THEN acc
  ELSE LET header == FrameHeader_parse(residual_data, offset)
       IN IF IsNone(header) THEN acc
          ELSE IF offset + header.frame_size > Len(residual_data) THEN acc
          ELSE IF l3 = << >> \/ IsNone(Head(l3)) THEN acc
          ELSE Mp3Decoder_decode_loop(residual_data, offset + header.frame_size, Tail(l3),
                  [all_samples |-> acc.all_samples \o Layer3Samples(Head(l3), header.channels),
                   detected_sample_rate |-> header.sample_rate,
                   detected_channels |-> header.channels,
                   processed_bytes |-> offset + header.frame_size])

\* Mp3Decoder::decode
Mp3Decoder_decode(dec, packet, l3) ==
  IF packet.data = << >> THEN [codec |-> dec, out |-> None]
  ELSE LET residual == dec.residual_data \o packet.data
           run == Mp3Decoder_decode_loop(residual, 0, l3,
                     [all_samples |-> << >>, detected_sample_rate |-> dec.sample_rate,
                      detected_channels |-> dec.channels, processed_bytes |-> 0])
           kept == SubSeq(residual, run.processed_bytes + 1, Len(residual))
           output == SamplesToBytes(run.all_samples, Len(run.all_samples))
           nb_samples == Len(run.all_samples) \div Max(run.detected_channels, 1)
       IN [codec |-> [dec EXCEPT !.residual_data = kept],
           out |-> IF run.all_samples = << >> THEN None
                   ELSE Frame_new_audio(output, run.detected_sample_rate, run.detected_channels,
                                        nb_samples, packet.timebase, packet.stream_index,
                                        packet.pts)]

(***************************************************************************)
(* codecs/rawvideo                                                         *)
(***************************************************************************)
\* RawVideoDecoder::decode
RawVideoDecoder_decode(dec, packet) ==
  [codec |-> dec,
   out |-> Frame_new_video(packet.data, dec.width, dec.height,
                           packet.timebase, packet.stream_index, packet.pts)]

\* RawVideoEncoder::encode
RawVideoEncoder_encode(enc, frame) ==
  [codec |-> enc,
   out |-> Packet_with_pts(Packet_new(frame.data, frame.stream_index, enc.timebase), frame.pts)]

(***************************************************************************)
(* cli/pipeline.rs: the transcode loop of Pipeline::run_wav_to_wav (with   *)
(* decoder, transform chain and encoder) and of the routes that hand the   *)
(* demuxer's packets straight to the muxer (run_wav_to_flac).              *)
(***************************************************************************)
Routes == {"wav_to_wav", "wav_to_flac", "demux_only"}
HasCodec(r) == r = "wav_to_wav"
HasMuxer(r) == r # "demux_only"
\* sample rates of the model
Rates == {8000, 16000}
\* tails added to a whole number of full packets to form a data chunk size
Tails == {0, 2}
DataSizes == {k * PACKET_SIZE + t : k \in 0..MaxFullPackets, t \in Tails}
\* bytes the input holds beyond (positive) or short of (negative) the declared size
SrcDeltas == {-3, 0, 5}
Chains == { << >>, << [name |-> "resample", target_rate |-> 16000] >>,
            << [name |-> "resample", target_rate |-> 8000] >> }

NoFrame == [pts |-> 0, timebase |-> Timebase_new(0, 0), stream_index |-> 0, valid |-> FALSE]
IdleWriter == [buf |-> << >>, pos |-> 0, data_size |-> 0]
NoPoll == [result |-> "", read |-> FALSE, returned |-> 0]

\* mutant: an error only ends the loop, the muxer is still finalized
Pipeline_on_error_break(stage) == "finalize"

\* what the `?` after each call does with an Err: the run returns it at once
Pipeline_on_error(stage) == "failed"
\* where the loop goes when read_packet returns None: `None => break`, then finalize
Pipeline_on_none(r) == IF HasMuxer(r) THEN "finalize" ELSE "done"
\* where a packet goes after read_packet returned it
Pipeline_after_read(r) ==
  IF HasCodec(r) THEN "decode" ELSE IF HasMuxer(r) THEN "write" ELSE "read"

InitPipeline ==
  /\ mode = "pipeline"
  /\ route \in Routes
  /\ chain \in (IF route = "wav_to_wav" THEN Chains ELSE { << >> })
  /\ format \in {WavFormat(c, 8000, 16) : c \in 1..3}
  /\ dataSize \in DataSizes
  /\ srcLen \in {Max(dataSize + d, 0) : d \in (IF chain = << >> THEN SrcDeltas ELSE {0})}
  /\ reader = WavReader_new(format, dataSize)
  /\ shortReads = 0
  /\ extraReads = 0
  /\ cur = None
  /\ encFrom = NoFrame
  /\ writer = IF route = "wav_to_wav" THEN WavWriter_new(format) ELSE IdleWriter
  /\ pc = "read"
  /\ readLog = << >>
  /\ sumSamples = 0
  /\ muxLog = << >>
  /\ eos = FALSE
  /\ srcReadCalls = 0
  /\ lastPoll = NoPoll
  /\ err = ""
  /\ written = << >>
  /\ codec = None /\ unit = None /\ result = None

\* WavReader::read_packet, first lines: nothing left of the data chunk
WavReader_at_end(r) == r.data_remaining = 0

\* reader.read_packet() called by the loop
ReadPacket ==
  /\ mode = "pipeline"
  /\ pc = "read"
  /\ IF WavReader_at_end(reader)
     THEN \* Ok(None) without touching the source
          /\ lastPoll' = [result |-> "none", read |-> FALSE, returned |-> reader.pos]
          /\ eos' = TRUE
          /\ extraReads' = IF eos THEN extraReads + 1 ELSE extraReads
          /\ pc' = IF route = "demux_only" /\ extraReads' < MaxExtraReads
                   THEN "read" ELSE Pipeline_on_none(route)
          /\ UNCHANGED << reader, shortReads, cur, readLog, srcReadCalls, err >>
     ELSE \/ \* reader.read fails: `?` returns the error
             /\ lastPoll' = [result |-> "err", read |-> TRUE, returned |-> reader.pos]
             /\ srcReadCalls' = srcReadCalls + 1
             /\ err' = "read"
             /\ pc' = Pipeline_on_error("read")
             /\ UNCHANGED << reader, shortReads, cur, readLog, eos, extraReads >>
          \/ \E n \in SourceReads(WavReader_frame_size(reader), srcLen - reader.pos,
                                  shortReads < MaxShortReads) :
               LET res == WavReader_read_packet(reader, format, n) IN
               /\ srcReadCalls' = srcReadCalls + 1
               /\ shortReads' = IF n < Min(WavReader_frame_size(reader), srcLen - reader.pos)
                                THEN shortReads + 1 ELSE shortReads
               /\ reader' = res.reader
               /\ IF res.packet = None
                  THEN /\ lastPoll' = [result |-> "none", read |-> TRUE,
                                       returned |-> reader.pos]
                       /\ eos' = TRUE
                       /\ extraReads' = IF eos THEN extraReads + 1 ELSE extraReads
                       /\ pc' = IF route = "demux_only" /\ extraReads' < MaxExtraReads
                                THEN "read" ELSE Pipeline_on_none(route)
                       /\ UNCHANGED << cur, readLog >>
                  ELSE /\ lastPoll' = [result |-> "packet", read |-> TRUE,
                                       returned |-> reader.pos]
                       /\ cur' = IF HasMuxer(route) THEN res.packet ELSE None
                       /\ readLog' = Append(readLog, [pts |-> res.packet.pts,
                                                      size |-> Packet_size(res.packet),
                                                      off |-> reader.pos,
                                                      timebase |-> res.packet.timebase])
                       /\ pc' = Pipeline_after_read(route)
                       /\ UNCHANGED << eos, extraReads >>
               /\ UNCHANGED err
  /\ UNCHANGED << written, codec, unit, result >>
  /\ UNCHANGED << mode, route, chain, format, dataSize, srcLen, encFrom, writer,
                  sumSamples, muxLog >>

\* decoder.decode(packet)
Decode ==
  /\ mode = "pipeline"
  /\ pc = "decode"
  /\ IF bytes_per_frame(format) = 0
     THEN /\ pc' = "panicked"
          /\ UNCHANGED << cur, sumSamples >>
     ELSE LET frame == PcmDecoder_decode(format, cur) IN
          /\ cur' = frame
          /\ sumSamples' = sumSamples + frame.nb_samples
          /\ pc' = IF chain = << >> THEN "encode" ELSE "transform"
  /\ UNCHANGED << written, codec, unit, result >>
  /\ UNCHANGED << mode, route, chain, format, dataSize, srcLen, reader, shortReads, extraReads,
                  encFrom, writer, readLog, muxLog, eos, srcReadCalls, lastPoll, err >>

\* transform_chain.apply(frame)
Transform ==
  /\ mode = "pipeline"
  /\ pc = "transform"
  /\ LET res == TransformChain_apply(chain, cur) IN
       IF IsPanic(res)
       THEN /\ pc' = "panicked"
            /\ UNCHANGED cur
       ELSE /\ cur' = res
            /\ pc' = "encode"
  /\ UNCHANGED << written, codec, unit, result >>
  /\ UNCHANGED << mode, route, chain, format, dataSize, srcLen, reader, shortReads, extraReads,
                  encFrom, writer, readLog, sumSamples, muxLog, eos, srcReadCalls, lastPoll, err >>

\* the encoder's timebase: Timebase::new(1, format.sample_rate), PcmEncoder::new(timebase)
Pipeline_encoder_timebase(fmt) == Timebase_new(1, fmt.sample_rate)

\* encoder.encode(processed)
Encode ==
  /\ mode = "pipeline"
  /\ pc = "encode"
  /\ cur' = PcmEncoder_encode(Pipeline_encoder_timebase(format), cur)
  /\ encFrom' = [pts |-> cur.pts, timebase |-> cur.timebase,
                 stream_index |-> cur.stream_index, valid |-> TRUE]
  /\ pc' = "write"
  /\ UNCHANGED << written, codec, unit, result >>
  /\ UNCHANGED << mode, route, chain, format, dataSize, srcLen, reader, shortReads, extraReads,
                  writer, readLog, sumSamples, muxLog, eos, srcReadCalls, lastPoll, err >>

\* writer.write_packet(pkt)
WritePacket ==
  /\ mode = "pipeline"
  /\ pc = "write"
  /\ \/ /\ writer' = IF route = "wav_to_wav" THEN WavWriter_write_packet(writer, cur) ELSE writer
        /\ muxLog' = Append(muxLog, [op |-> "write", id |-> Len(readLog), size |-> Packet_size(cur)])
        /\ pc' = "read"
        /\ UNCHANGED err
     \/ \E n \in {0, Min(1, Packet_size(cur))} :
        /\ writer' = IF route = "wav_to_wav"
                     THEN WavWriter_write_packet_failed(writer, cur, n) ELSE writer
        /\ muxLog' = Append(muxLog, [op |-> "write_failed", id |-> Len(readLog), size |-> n])
        /\ err' = "write"
        /\ pc' = Pipeline_on_error("write")
  /\ cur' = None
  /\ UNCHANGED << written, codec, unit, result >>
  /\ UNCHANGED << mode, route, chain, format, dataSize, srcLen, reader, shortReads, extraReads,
                  encFrom, readLog, sumSamples, eos, srcReadCalls, lastPoll >>

\* writer.finalize()
Finalize ==
  /\ mode = "pipeline"
  /\ pc = "finalize"
  /\ muxLog' = Append(muxLog, [op |-> "finalize", id |-> 0, size |-> 0])
  /\ \/ /\ writer' = IF route = "wav_to_wav" THEN WavWriter_finalize(writer) ELSE writer
        /\ pc' = "done"
        /\ UNCHANGED err
     \/ \* a seek or write_all inside finalize fails: before or after the first patch
        /\ writer' \in (IF route = "wav_to_wav"
                        THEN {writer, WavWriter_finalize_riff(writer)} ELSE {writer})
        /\ err' = "finalize"
        /\ pc' = Pipeline_on_error("finalize")
  /\ UNCHANGED << written, codec, unit, result >>
  /\ UNCHANGED << mode, route, chain, format, dataSize, srcLen, reader, shortReads, extraReads,
                  cur, encFrom, readLog, sumSamples, eos, srcReadCalls, lastPoll >>

(***************************************************************************)
(* WavWriter driven on its own: any sequence of write_packet calls, then   *)
(* finalize (tests/container/roundtrip.rs drives the muxer this way).      *)
(***************************************************************************)
\* the variables of the transcode loop, at rest while another driver runs
PipelineIdle ==
  /\ route = "" /\ chain = << >> /\ dataSize = 0 /\ srcLen = 0
  /\ reader = WavReader_new(format, 0)
  /\ shortReads = 0 /\ extraReads = 0 /\ cur = None /\ encFrom = NoFrame
  /\ readLog = << >> /\ sumSamples = 0 /\ eos = FALSE /\ srcReadCalls = 0
  /\ lastPoll = NoPoll /\ err = ""

\* packet payloads handed to the muxer
WriterPayloads == { << >>, << 1 >>, << 200, 7 >>, << 0, 0, 255 >> }

InitWriter ==
  /\ mode = "writer"
  /\ format \in {WavFormat(c, r, 16) : c \in 1..2, r \in Rates}
  /\ PipelineIdle
  /\ writer = WavWriter_new(format)
  /\ pc = "open"
  /\ muxLog = << >>
  /\ written = << >>
  /\ codec = None /\ unit = None /\ result = None

\* writer.write_packet(packet), succeeding or failing part-way
WriterWritePacket ==
  /\ mode = "writer"
  /\ pc = "open"
  /\ Len(muxLog) < MaxWrites
  /\ \E data \in WriterPayloads :
       LET packet == Packet_new(data, 0, Timebase_new(1, format.sample_rate))
       IN \/ /\ writer' = WavWriter_write_packet(writer, packet)
             /\ written' = written \o data
             /\ muxLog' = Append(muxLog, [op |-> "write", id |-> Len(muxLog) + 1,
                                          size |-> Packet_size(packet)])
             /\ pc' = "open"
          \/ \E n \in 0..(Len(data) - 1) :
             /\ writer' = WavWriter_write_packet_failed(writer, packet, n)
             /\ muxLog' = Append(muxLog, [op |-> "write_failed", id |-> Len(muxLog) + 1,
                                          size |-> n])
             /\ pc' = "write_failed"
             /\ UNCHANGED written
  /\ UNCHANGED << mode, route, chain, format, dataSize, srcLen, reader, shortReads, extraReads,
                  cur, encFrom, readLog, sumSamples, eos, srcReadCalls, lastPoll, err >>
  /\ UNCHANGED codecVars

\* writer.finalize()
WriterFinalize ==
  /\ mode = "writer"
  /\ pc = "open"
  /\ writer' = WavWriter_finalize(writer)
  /\ muxLog' = Append(muxLog, [op |-> "finalize", id |-> 0, size |-> 0])
  /\ pc' = "finalized"
  /\ UNCHANGED << mode, route, chain, format, dataSize, srcLen, reader, shortReads, extraReads,
                  cur, encFrom, readLog, sumSamples, eos, srcReadCalls, lastPoll, err, written >>
  /\ UNCHANGED codecVars

NextWriter == WriterWritePacket \/ WriterFinalize
SpecWriter == InitWriter /\ [][NextWriter]_vars

(***************************************************************************)
(* A codec driven on its own: a decoder or encoder is constructed, then    *)
(* handed packets or frames one call at a time.                            *)
(***************************************************************************)
Decoders == {"PcmDecoder", "AdpcmDecoder", "MsAdpcmDecoder", "UlawDecoder",
             "FlacDecoder", "Mp3Decoder", "RawVideoDecoder"}
Encoders == {"PcmEncoder", "AdpcmEncoder", "MsAdpcmEncoder", "UlawEncoder",
             "FlacEncoder", "RawVideoEncoder"}

\* payload bytes of the packets of the model
Payload(n, seed) == [i \in 1..n |-> ((i + seed) * 37) % 256]
\* payload bytes of the audio frames of the model: 16-bit samples in -256..255
FramePayload(n, seed) ==
  [i \in 1..n |-> IF i % 2 = 1 THEN ((i + seed) * 37) % 256
                  ELSE IF ((i + seed) \div 2) % 3 = 0 THEN 255 ELSE 0]

\* pts, timebase and stream_index carried by the units of the model
UnitMetas ==
  { [pts |-> 7, timebase |-> Timebase_new(1, 8000), stream_index |-> 0],
    [pts |-> -3, timebase |-> Timebase_new(1, 44100), stream_index |-> 1],
    [pts |-> 4097, timebase |-> Timebase_new(1001, 30000), stream_index |-> 2] }

\* the packets handed to a decoder, by payload length
CodecPackets(lens) ==
  {Packet_with_pts(Packet_new(Payload(n, n), m.stream_index, m.timebase), m.pts) :
      n \in lens, m \in UnitMetas}

\* the audio frames handed to an encoder
CodecFrames(channels) ==
  {Frame_new_audio(FramePayload(n, n), 8000, channels, (n \div 2) \div channels,
                   m.timebase, m.stream_index, m.pts) :
      n \in {0, 3, 4, 12}, m \in UnitMetas}

\* a 24-byte MPEG-2 Layer III frame (8 kbit/s, 24 kHz), mono or stereo
Mp3Frame(stereo) ==
  << 255, 243, 20, IF stereo THEN 0 ELSE 192 >> \o [i \in 1..20 |-> (i * 11) % 256]
\* payloads handed to Mp3Decoder: whole frames, the two parts of one, bytes
\* that never parse as a header (a few, and a packet of 8000 of them), and
\* nothing
Mp3Payloads ==
  { Mp3Frame(FALSE), Mp3Frame(TRUE), SubSeq(Mp3Frame(FALSE), 1, 10),
    SubSeq(Mp3Frame(FALSE), 11, 24), << 1, 2, 3, 4, 5 >>, [i \in 1..8000 |-> i % 251], << >> }

\* what decode_frame may return for a FLAC packet
FlacFrames(channels) ==
  {Err("InvalidData")} \cup
  {[block_size |-> n, samples |-> [ch \in 1..channels |-> [i \in 1..n |-> 300 * ch - 7 * i]]] :
      n \in 0..2}

CodecConfigs ==
  {[kind |-> k, calls |-> 0, st |-> [format |-> WavFormat(c, 8000, 16)]] :
      k \in {"PcmDecoder", "UlawDecoder", "MsAdpcmDecoder"}, c \in 1..3}
  \cup {[kind |-> "AdpcmDecoder", calls |-> 0, st |-> AdpcmDecoder_new(WavFormat(c, 8000, 16))] :
      c \in 1..3}
  \cup {[kind |-> "FlacDecoder", calls |-> 0,
         st |-> [stream_info |-> FlacStreamInfo(8000, c, b, 2)]] : c \in 1..2, b \in {8, 16}}
  \cup {[kind |-> "Mp3Decoder", calls |-> 0, st |-> Mp3Decoder_new(24000, c)] : c \in 1..2}
  \cup {[kind |-> "RawVideoDecoder", calls |-> 0, st |-> [width |-> 2, height |-> 2]]}
  \cup {[kind |-> k, calls |-> 0, st |-> [timebase |-> Timebase_new(1, r), channels |-> 1]] :
      k \in {"PcmEncoder", "UlawEncoder", "RawVideoEncoder"}, r \in Rates}
  \cup {[kind |-> "MsAdpcmEncoder", calls |-> 0,
         st |-> [timebase |-> Timebase_new(1, r), channels |-> c]] : r \in Rates, c \in 1..3}
  \cup {[kind |-> "AdpcmEncoder", calls |-> 0, st |-> AdpcmEncoder_new(Timebase_new(1, r), c)] :
      r \in Rates, c \in 1..3}
  \cup {[kind |-> "FlacEncoder", calls |-> 0, st |-> FlacEncoder_new(r, c, 16, 2)] :
      r \in Rates, c \in 1..2}

InitCodec ==
  /\ mode = "codec"
  /\ format = WavFormat(1, 8000, 16)
  /\ PipelineIdle
  /\ writer = IdleWriter
  /\ pc = "codec"
  /\ muxLog = << >>
  /\ written = << >>
  /\ codec \in CodecConfigs
  /\ unit = None
  /\ result = None

\* a call on the codec: guard (the instance exists and has not aborted)
CodecCall(kind) ==
  /\ mode = "codec"
  /\ codec.kind = kind
  /\ codec.calls < MaxCodecCalls
  /\ ~IsPanic(result)

\* a call on the codec: what it leaves behind
CodecReturn(input, r) ==
  /\ codec' = [codec EXCEPT !.st = r.codec, !.calls = @ + 1]
  /\ unit' = input
  /\ result' = r.out
  /\ UNCHANGED << mode, route, chain, format, dataSize, srcLen, reader, shortReads, extraReads,
                  cur, encFrom, writer, pc, readLog, sumSamples, muxLog, eos, srcReadCalls,
                  lastPoll, err, written >>

PcmDecode ==
  /\ CodecCall("PcmDecoder")
  /\ \E packet \in CodecPackets({0, 1, 2, 3, 4, 6}) :
       CodecReturn(packet, [codec |-> codec.st,
                            out |-> PcmDecoder_decode(codec.st.format, packet)])

AdpcmDecode ==
  /\ CodecCall("AdpcmDecoder")
  /\ \E packet \in CodecPackets({0, 1, 2, 3}) :
       CodecReturn(packet, AdpcmDecoder_decode(codec.st, packet))

MsAdpcmDecode ==
  /\ CodecCall("MsAdpcmDecoder")
  /\ \E packet \in CodecPackets({0} \cup {7 * codec.st.format.channels + d : d \in -1..2}) :
       CodecReturn(packet, MsAdpcmDecoder_decode(codec.st, packet))

UlawDecode ==
  /\ CodecCall("UlawDecoder")
  /\ \E packet \in CodecPackets({0, 1, 2, 3, 4}) :
       CodecReturn(packet, UlawDecoder_decode(codec.st, packet))

FlacDecode ==
  /\ CodecCall("FlacDecoder")
  /\ \E packet \in CodecPackets({3, 5}), flac_frame \in FlacFrames(codec.st.stream_info.channels) :
       CodecReturn(packet, FlacDecoder_decode(codec.st, packet, flac_frame))

Mp3Decode ==
  /\ CodecCall("Mp3Decoder")
  /\ \E payload \in Mp3Payloads, m \in UnitMetas, l3 \in [1..MaxCodecCalls -> Layer3Results] :
       LET packet == Packet_with_pts(Packet_new(payload, m.stream_index, m.timebase), m.pts)
       IN CodecReturn(packet, Mp3Decoder_decode(codec.st, packet, l3))

RawVideoDecode ==
  /\ CodecCall("RawVideoDecoder")
  /\ \E packet \in CodecPackets({0, 5, 6}) :
       CodecReturn(packet, RawVideoDecoder_decode(codec.st, packet))

PcmEncode ==
  /\ CodecCall("PcmEncoder")
  /\ \E frame \in CodecFrames(codec.st.channels) :
       CodecReturn(frame, [codec |-> codec.st,
                           out |-> PcmEncoder_encode(codec.st.timebase, frame)])

AdpcmEncode ==
  /\ CodecCall("AdpcmEncoder")
  /\ \E frame \in CodecFrames(codec.st.channels) :
       CodecReturn(frame, AdpcmEncoder_encode(codec.st, frame))

MsAdpcmEncode ==
  /\ CodecCall("MsAdpcmEncoder")
  /\ \E frame \in CodecFrames(codec.st.channels) :
       CodecReturn(frame, MsAdpcmEncoder_encode(codec.st, frame))

UlawEncode ==
  /\ CodecCall("UlawEncoder")
  /\ \E frame \in CodecFrames(codec.st.channels) :
       CodecReturn(frame, UlawEncoder_encode(codec.st, frame))

FlacEncode ==
  /\ CodecCall("FlacEncoder")
  /\ \E frame \in CodecFrames(codec.st.stream_info.channels) :
       CodecReturn(frame, FlacEncoder_encode(codec.st, frame))

RawVideoEncode ==
  /\ CodecCall("RawVideoEncoder")
  /\ \E n \in {0, 6}, m \in UnitMetas :
       LET frame == Frame_new_video(Payload(n, 1), 2, 2, m.timebase, m.stream_index, m.pts)
       IN CodecReturn(frame, RawVideoEncoder_encode(codec.st, frame))

NextCodec ==
  \/ PcmDecode \/ AdpcmDecode \/ MsAdpcmDecode \/ UlawDecode \/ FlacDecode \/ Mp3Decode
  \/ RawVideoDecode
  \/ PcmEncode \/ AdpcmEncode \/ MsAdpcmEncode \/ UlawEncode \/ FlacEncode \/ RawVideoEncode
SpecCodec == InitCodec /\ [][NextCodec]_vars

(***************************************************************************)
(* A demuxer driven on its own: a WavReader is opened on the bytes of a    *)
(* file and polled, or a Y4mReader is polled on the bytes that follow the  *)
(* stream header.                                                          *)
(***************************************************************************)
\* the variables of the other drivers, at rest
DriverIdle ==
  /\ format = WavFormat(1, 8000, 16)
  /\ PipelineIdle
  /\ writer = IdleWriter
  /\ muxLog = << >>
  /\ written = << >>

\* a step of a driver that works on codec, unit, result and pc only
DriverStep(c, u, r, p) ==
  /\ codec' = c
  /\ unit' = u
  /\ result' = r
  /\ pc' = p
  /\ UNCHANGED << mode, route, chain, format, dataSize, srcLen, reader, shortReads, extraReads,
                  cur, encFrom, writer, readLog, sumSamples, muxLog, eos, srcReadCalls,
                  lastPoll, err, written >>

\* ReadPrimitives::read_exact on a source holding `data`, read up to `pos`
ReadPrimitives_read_exact(data, pos, n) ==
  IF pos + n <= Len(data)
  THEN [ok |-> TRUE, bytes |-> SubSeq(data, pos + 1, pos + n), pos |-> pos + n]
  ELSE [ok |-> FALSE, bytes |-> << >>, pos |-> Len(data)]

\* WavReader::read_header, the chunk loop
RECURSIVE WavReader_read_header_loop(_, _)
WavReader_read_header_loop(data, pos) ==
  LET h == ReadPrimitives_read_exact(data, pos, 8) IN
  IF ~h.ok THEN Err("UnexpectedEof")
  ELSE LET chunk_id == SubSeq(h.bytes, 1, 4)
           chunk_size == FromLE32(SubSeq(h.bytes, 5, 8))
           body == ReadPrimitives_read_exact(data, h.pos, chunk_size)
       IN IF ~body.ok THEN Err("UnexpectedEof")
          ELSE IF chunk_id = TagFmt
          THEN IF chunk_size < 16 THEN Err("InvalidData")
               ELSE LET fmt_buf == body.bytes
                        channels == (fmt_buf[3] + 256 * fmt_buf[4]) % 256
                        sample_rate == FromLE32(SubSeq(fmt_buf, 5, 8))
                        bit_depth == fmt_buf[15] + 256 * fmt_buf[16]
                    IN IF bit_depth # 16 THEN Err("InvalidData")
                       ELSE [format |-> WavFormat(channels, sample_rate, bit_depth),
                             pos |-> body.pos]
          ELSE WavReader_read_header_loop(data, body.pos)

\* WavReader::read_header
WavReader_read_header(data) ==
  LET h == ReadPrimitives_read_exact(data, 0, 12) IN
  IF ~h.ok THEN Err("UnexpectedEof")
  ELSE IF SubSeq(h.bytes, 1, 4) # TagRIFF THEN Err("InvalidData")
  ELSE IF SubSeq(h.bytes, 9, 12) # TagWAVE THEN Err("InvalidData")
  ELSE WavReader_read_header_loop(data, h.pos)

\* WavReader::find_data_chunk: the input is scanned eight bytes at a time
RECURSIVE WavReader_find_data_chunk(_, _)
WavReader_find_data_chunk(data, pos) ==
  LET h == ReadPrimitives_read_exact(data, pos, 8) IN
  IF ~h.ok THEN Err("UnexpectedEof")
  ELSE IF SubSeq(h.bytes, 1, 4) = TagData
  THEN [size |-> FromLE32(SubSeq(h.bytes, 5, 8)), pos |-> h.pos]
  ELSE WavReader_find_data_chunk(data, h.pos)

\* WavReader::new on the bytes of a file: an error, or the reader and where
\* in the file its data starts
WavReader_open(data) ==
  LET hdr == WavReader_read_header(data) IN
  IF IsErr(hdr) THEN hdr
  ELSE LET dc == WavReader_find_data_chunk(data, hdr.pos) IN
       IF IsErr(dc) THEN dc
       ELSE [format |-> hdr.format, start |-> dc.pos,
             reader |-> WavReader_new(hdr.format, dc.size)]

\* a LIST chunk: tag, declared size, payload
ListChunk(payload) == << 76, 73, 83, 84 >> \o LE32(Len(payload)) \o payload

\* what a file of the model holds between its fmt chunk and its data chunk:
\* nothing, or a LIST chunk of 4 bytes, of 8 bytes, or of 8 bytes that spell
\* a chunk header themselves
ChunksBetween ==
  { << >>, ListChunk(<< 1, 2, 3, 4 >>), ListChunk(<< 1, 2, 3, 4, 5, 6, 7, 8 >>),
    ListChunk(TagData \o LE32(2)) }

\* the fields of a WAV header of the model
WavHeaders ==
  [riff : {TagRIFF, << 82, 73, 70, 88 >>}, wave : {TagWAVE, << 65, 86, 73, 32 >>},
   list : BOOLEAN, fmt_size : {14, 16, 18}, channels : {0, 1, 2, 256},
   sample_rate : {0, 8000}, bit_depth : {8, 16}, between : ChunksBetween,
   data_size : {0, 4, 6}, missing : {0, 2}, cut : {0, 50}]

\* the bytes of a file with header fields h: the data chunk declares
\* h.data_size bytes, the file holds h.missing fewer, and a file with
\* h.cut > 0 ends h.cut bytes early
WavFileBytes(h) ==
  LET fmt_body == LE16(1) \o LE16(h.channels) \o LE32(h.sample_rate)
                    \o LE32(h.sample_rate * 2) \o LE16(2) \o LE16(h.bit_depth) \o << 0, 0 >>
      all == h.riff \o LE32(0) \o h.wave
               \o (IF h.list THEN ListChunk(<< 1, 2 >>) ELSE << >>)
               \o TagFmt \o LE32(h.fmt_size) \o SubSeq(fmt_body, 1, h.fmt_size)
               \o h.between
               \o TagData \o LE32(h.data_size)
               \o SourceBytes(0, Max(h.data_size - h.missing, 0))
  IN SubSeq(all, 1, Max(Len(all) - h.cut, 0))

\* Y4mFormat::frame_size for the 4:2:0 colourspace
Y4mFormat_frame_size(fmt) == (fmt.width * fmt.height * 3) \div 2

TagFRAME == << 70, 82, 65, 77, 69 >>
NewLine == 10

\* core::str::from_utf8 on the header lines of the model: every byte of them
\* is ASCII or the byte 255, which no UTF-8 text holds
Utf8Valid(bytes) == \A i \in DOMAIN bytes : bytes[i] < 128

\* Y4mReader::read_frame_header: Ok(true) (a FRAME line was read), Ok(false)
\* (the input ended before the line's first byte) or an error; pos is where
\* the reader is afterwards
RECURSIVE Y4mReader_read_frame_header(_, _, _)
Y4mReader_read_frame_header(data, pos, header) ==
  LET b == ReadPrimitives_read_exact(data, pos, 1) IN
  IF ~b.ok
  THEN [pos |-> b.pos,
        out |-> IF header = << >> THEN [ok |-> FALSE] ELSE Err("UnexpectedEof")]
  ELSE IF b.bytes[1] = NewLine
  THEN [pos |-> b.pos,
        out |-> IF ~Utf8Valid(header) THEN Err("InvalidData")
                ELSE IF Len(header) < 5 \/ SubSeq(header, 1, 5) # TagFRAME
                THEN Err("InvalidData")
                ELSE [ok |-> TRUE]]
  ELSE Y4mReader_read_frame_header(data, b.pos, Append(header, b.bytes[1]))

\* Y4mReader::read_packet on a reader r over the bytes `data`
Y4mReader_read_packet(r, data) ==
  LET fh == Y4mReader_read_frame_header(data, r.pos, << >>) IN
  IF IsErr(fh.out) THEN [reader |-> [r EXCEPT !.pos = fh.pos], packet |-> fh.out]
  ELSE IF ~fh.out.ok THEN [reader |-> [r EXCEPT !.pos = fh.pos], packet |-> None]
  ELSE LET body == ReadPrimitives_read_exact(data, fh.pos, Y4mFormat_frame_size(r.format)) IN
       IF ~body.ok
       THEN [reader |-> [r EXCEPT !.pos = body.pos], packet |-> Err("UnexpectedEof")]
       ELSE [reader |-> [r EXCEPT !.pos = body.pos, !.frame_count = r.frame_count + 1],
             packet |-> Packet_with_pts(Packet_new(body.bytes, 0, r.timebase), r.frame_count)]

\* a Y4M frame of the model: a FRAME line and its payload
Y4mFrameBytes(size, seed) == TagFRAME \o << NewLine >> \o Payload(size, seed)

\* what may follow the last whole frame of a Y4M input
Y4mTails(size) ==
  { << >>, << 70, 82 >>, TagFRAME, TagFRAME \o << NewLine >>,
    TagFRAME \o << NewLine >> \o Payload(size - 1, 3),
    TagFRAME \o << 32, 73, 112, NewLine >> \o Payload(size, 5),
    << 74, 85, 78, 75, NewLine >> \o Payload(size, 7),
    TagFRAME \o << 255, NewLine >> \o Payload(size, 9) }

\* the bytes of a Y4M input after the stream header, by its whole frames and tail
Y4mBodyBytes(frames, tail, size) ==
  (IF frames >= 1 THEN Y4mFrameBytes(size, 1) ELSE << >>)
    \o (IF frames >= 2 THEN Y4mFrameBytes(size, 2) ELSE << >>) \o tail

DemuxInputs ==
  {[kind |-> "WavReader", hdr |-> h, bytes |-> WavFileBytes(h)] : h \in WavHeaders}
  \cup {[kind |-> "Y4mReader", hdr |-> [frames |-> k, tail |-> t],
         bytes |-> Y4mBodyBytes(k, t, 6)] : k \in 0..2, t \in Y4mTails(6)}

InitDemux ==
  /\ mode = "demux"
  /\ DriverIdle
  /\ unit \in DemuxInputs
  /\ codec = IF unit.kind = "WavReader" THEN [kind |-> "WavReader", calls |-> 0, st |-> None]
             ELSE [kind |-> "Y4mReader", calls |-> 0,
                   st |-> [pos |-> 0, frame_count |-> 0,
                           format |-> [width |-> 2, height |-> 2],
                           timebase |-> Timebase_new(1, 30)]]
  /\ pc = IF unit.kind = "WavReader" THEN "new" ELSE "open"
  /\ result = None

\* WavReader::new(reader)
WavOpen ==
  /\ mode = "demux" /\ codec.kind = "WavReader" /\ pc = "new"
  /\ LET r == WavReader_open(unit.bytes) IN
     IF IsErr(r)
     THEN DriverStep(codec, unit, [op |-> "new", out |-> r, before |-> None], "rejected")
     ELSE DriverStep([codec EXCEPT !.st = r], unit,
                     [op |-> "new", out |-> None, before |-> None], "open")

\* WavReader::read_packet on the opened file
WavReadPacket ==
  /\ mode = "demux" /\ codec.kind = "WavReader" /\ pc = "open"
  /\ codec.calls < MaxPolls
  /\ LET st == codec.st
         r == st.reader
         avail == Len(unit.bytes) - (st.start + r.pos)
         read == IF WavReader_at_end(r) THEN 0 ELSE Min(WavReader_frame_size(r), avail)
         o == WavReader_read_packet(r, st.format, read)
     IN DriverStep([codec EXCEPT !.st.reader = o.reader, !.calls = @ + 1], unit,
                   [op |-> "read_packet", out |-> o.packet, before |-> r],
                   IF IsPanic(o.packet) THEN "aborted" ELSE "open")

\* Y4mReader::read_packet
Y4mReadPacket ==
  /\ mode = "demux" /\ codec.kind = "Y4mReader" /\ pc = "open"
  /\ codec.calls < MaxPolls
  /\ LET o == Y4mReader_read_packet(codec.st, unit.bytes)
     IN DriverStep([codec EXCEPT !.st = o.reader, !.calls = @ + 1], unit,
                   [op |-> "read_packet", out |-> o.packet, before |-> codec.st], "open")

NextDemux == WavOpen \/ WavReadPacket \/ Y4mReadPacket
SpecDemux == InitDemux /\ [][NextDemux]_vars

(***************************************************************************)
(* io/reader.rs: BufferedReader<R, N> driven on its own over an inner      *)
(* source whose read may return fewer bytes than asked.                    *)
(***************************************************************************)
\* MediaRead::read of the inner source: the count returned for a buffer of
\* `want` bytes when `avail` bytes are left; a short read returns one byte
MediaRead_read(want, avail, short) ==
  IF short THEN Min(1, Min(want, avail)) ELSE Min(want, avail)

\* BufferedReader::new
BufferedReader_new(N) ==
  [buffer |-> [i \in 1..N |-> 0], pos |-> 0, filled |-> 0, inner |-> 0]

\* BufferedReader::consume
BufferedReader_consume(st, amt) == [st EXCEPT !.pos = Min(st.pos + amt, st.filled)]

\* BufferedReader::discard_buffer
BufferedReader_discard_buffer(st) == [st EXCEPT !.pos = 0, !.filled = 0]

\* BufferedReader::fill_buf: the reader after it; the window is buffer[pos..filled]
BufferedReader_fill_buf(st, data, N, short) ==
  IF st.pos >= st.filled
  THEN LET d == BufferedReader_discard_buffer(st)
           n == MediaRead_read(N, Len(data) - d.inner, short)
       IN [d EXCEPT !.buffer = [i \in 1..N |-> IF i <= n THEN data[d.inner + i] ELSE d.buffer[i]],
                    !.filled = n, !.inner = d.inner + n]
  ELSE st

\* mutant: a bulk read goes to the inner source even when the window holds bytes
BufferedReader_bypasses_always(st, N, len) == len >= N

\* read: the condition under which a read bypasses the buffer
BufferedReader_bypasses(st, N, len) == len >= N /\ st.pos >= st.filled

\* <BufferedReader as MediaRead>::read into a buffer of len bytes: the reader
\* after it and the bytes copied into the caller's buffer
BufferedReader_read(st, data, N, len, short) ==
  IF BufferedReader_bypasses(st, N, len)
  THEN LET d == BufferedReader_discard_buffer(st)
           n == MediaRead_read(len, Len(data) - d.inner, short)
       IN [st |-> [d EXCEPT !.inner = d.inner + n],
           bytes |-> SubSeq(data, d.inner + 1, d.inner + n), path |-> "bypass"]
  ELSE LET f == BufferedReader_fill_buf(st, data, N, short)
           amt == Min(f.filled - f.pos, len)
       IN [st |-> BufferedReader_consume(f, amt),
           bytes |-> SubSeq(f.buffer, f.pos + 1, f.pos + amt), path |-> "window"]

\* ReadPrimitives::read_exact on the BufferedReader: the reader after it, the
\* bytes put into the caller's buffer and whether the buffer was filled
RECURSIVE BufferedReader_read_exact(_, _, _, _, _, _)
BufferedReader_read_exact(st, data, N, len, short, got) ==
  IF Len(got) >= len THEN [st |-> st, bytes |-> got, out |-> None]
  ELSE LET r == BufferedReader_read(st, data, N, len - Len(got), short) IN
       IF r.bytes = << >> THEN [st |-> r.st, bytes |-> got, out |-> Err("UnexpectedEof")]
       ELSE BufferedReader_read_exact(r.st, data, N, len, short, got \o r.bytes)

\* capacities N of the readers of the model
Capacities == 1..3
\* the inner sources of the model
InnerSources == { << >>, << 9 >>, << 1, 2, 3, 4, 5 >>, << 7, 7, 8, 7, 7, 8 >> }
\* sizes of the buffers handed to read and read_exact
BufSizes == 0..4

InitBuffered ==
  /\ mode = "buffered"
  /\ DriverIdle
  /\ unit \in InnerSources
  /\ \E N \in Capacities :
       codec = [kind |-> "BufferedReader", calls |-> 0, N |-> N, st |-> BufferedReader_new(N)]
  /\ pc = "open"
  /\ result = [op |-> "new", len |-> 0, out |-> None, bytes |-> << >>, delivered |-> << >>,
               before |-> None, paths |-> {}]

\* buffered.read(&mut buf)
BufRead ==
  /\ mode = "buffered" /\ codec.calls < MaxBufCalls
  /\ \E len \in BufSizes, short \in BOOLEAN :
       LET r == BufferedReader_read(codec.st, unit, codec.N, len, short) IN
       DriverStep([codec EXCEPT !.st = r.st, !.calls = @ + 1], unit,
                  [op |-> "read", len |-> len, out |-> None, bytes |-> r.bytes,
                   delivered |-> result.delivered \o r.bytes, before |-> codec.st,
                   paths |-> result.paths \cup {r.path}], pc)

\* buffered.read_exact(&mut buf)
BufReadExact ==
  /\ mode = "buffered" /\ codec.calls < MaxBufCalls
  /\ \E len \in BufSizes, short \in BOOLEAN :
       LET r == BufferedReader_read_exact(codec.st, unit, codec.N, len, short, << >>) IN
       DriverStep([codec EXCEPT !.st = r.st, !.calls = @ + 1], unit,
                  [op |-> "read_exact", len |-> len, out |-> r.out, bytes |-> r.bytes,
                   delivered |-> result.delivered \o r.bytes, before |-> codec.st,
                   paths |-> result.paths], pc)

NextBuffered == BufRead \/ BufReadExact
SpecBuffered == InitBuffered /\ [][NextBuffered]_vars

(***************************************************************************)
(* A transform driven on its own: it is constructed, then handed frames    *)
(* one apply at a time, fresh ones or the frame it returned last.          *)
(***************************************************************************)
\* pts, timebase and stream_index of the frames handed to a transform
FrameMetas ==
  { [pts |-> 10, timebase |-> Timebase_new(1, 8000), stream_index |-> 0],
    [pts |-> -3, timebase |-> Timebase_new(1, 44100), stream_index |-> 1] }

\* channel count and interleaved samples of the audio frames of the model
AudioContents ==
  { [channels |-> 1, samples |-> << >>],
    [channels |-> 1, samples |-> << 100 >>],
    [channels |-> 1, samples |-> << 16383, -16384 >>],
    [channels |-> 1, samples |-> << 16384, -16385 >>],
    [channels |-> 2, samples |-> << 1, 2 >>],
    [channels |-> 2, samples |-> << -1, -2 >>],
    [channels |-> 2, samples |-> << 32767, -32768 >>],
    [channels |-> 2, samples |-> << -32768, 20000 >>],
    [channels |-> 2, samples |-> << 3, 4, -7, 2 >>] }

\* audio frames at 8000 Hz
AudioFrames ==
  {Frame_new_audio(SamplesToBytes(c.samples, Len(c.samples)), 8000, c.channels,
                   Len(c.samples) \div c.channels, m.timebase, m.stream_index, m.pts) :
      c \in AudioContents, m \in FrameMetas}

\* audio frames whose sample_rate is 0
ZeroRateFrames ==
  {Frame_new_audio(SamplesToBytes(smp, Len(smp)), 0, 1, Len(smp), Timebase_new(1, 8000), 0, 0) :
      smp \in { << >>, << 100 >>, << 5, -6 >> }}

\* YUV420 frames of width w and height h (both even): w*h luma bytes, then
\* two chroma planes of (w/2)*(h/2) bytes
VideoFrame(w, h, seed, m) ==
  Frame_new_video(Payload((w * h * 3) \div 2, seed), w, h, m.timebase, m.stream_index, m.pts)
VideoFrames ==
  {VideoFrame(d[1], d[2], d[1] + d[2], m) : d \in {<< 2, 2 >>, << 4, 2 >>, << 2, 4 >>},
                                            m \in FrameMetas}

TransformFrames == AudioFrames \cup ZeroRateFrames \cup VideoFrames

\* the sizes the video operators of the model are built for
VideoSizes == {<< 2, 2 >>, << 4, 2 >>, << 2, 4 >>}

\* the video operators of the model, each as constructed
VideoConfigs ==
  {[kind |-> "Flip", calls |-> 0,
    st |-> [direction |-> d, width |-> sz[1], height |-> sz[2]]] :
      d \in {"Horizontal", "Vertical"}, sz \in VideoSizes}
  \cup {[kind |-> "Rotate", calls |-> 0,
          st |-> [angle |-> a, width |-> sz[1], height |-> sz[2]]] :
            a \in {"Rotate90", "Rotate180", "Rotate270"}, sz \in VideoSizes}
  \cup {[kind |-> "Crop", calls |-> 0, st |-> Crop_new(4, 2, c[1], c[2], c[3], c[4])] :
            c \in {<< 0, 0, 2, 2 >>, << 2, 0, 2, 2 >>, << 2, 0, 4, 4 >>}}
  \cup {[kind |-> "Pad", calls |-> 0, st |-> Pad_new(2, 2, 4, 2, x, 0)] : x \in {0, 2}}
  \cup {[kind |-> "Blur", calls |-> 0,
          st |-> [width |-> sz[1], height |-> sz[2], radius |-> r]] :
            sz \in VideoSizes, r \in 0..1}
  \cup {[kind |-> "Brightness", calls |-> 0,
          st |-> [width |-> sz[1], height |-> sz[2], half_steps |-> h]] :
            sz \in {<< 2, 2 >>, << 4, 2 >>}, h \in {0, 255, -255}}
  \cup {[kind |-> "Scale", calls |-> 0,
          st |-> [src_width |-> c[1], src_height |-> c[2], target_width |-> c[3],
                  target_height |-> c[4], mode |-> c[5]]] :
            c \in {<< 2, 2, 2, 2, "Bilinear" >>, << 4, 2, 2, 2, "Bilinear" >>,
                   << 4, 2, 2, 2, "NearestNeighbor" >>, << 2, 2, 4, 4, "NearestNeighbor" >>}}

TransformConfigs ==
  {[kind |-> "Gain", calls |-> 0, st |-> [factor |-> f]] :
      f \in {[num |-> 2, den |-> 1], [num |-> 1, den |-> 2], [num |-> -1, den |-> 1],
             [num |-> 3, den |-> 2]}}
  \cup {[kind |-> "ChannelMixer", calls |-> 0, st |-> [target_channels |-> c]] : c \in 1..2}
  \cup {[kind |-> "Resample", calls |-> 0, st |-> [target_rate |-> r]] :
          r \in {8000, 11025, 16000}}
  \cup {[kind |-> "Normalize", calls |-> 0, st |-> [target |-> t, overflow_checks |-> oc]] :
          t \in {32767, 16383, 0}, oc \in BOOLEAN}
  \cup {[kind |-> "PeakLimiter", calls |-> 0, st |-> PeakLimiter_new]}
  \cup {[kind |-> "RmsLimiter", calls |-> 0, st |-> RmsLimiter_new(3)]}
  \cup {[kind |-> "Lowpass", calls |-> 0, st |-> Lowpass_new]}
  \cup {[kind |-> "Equalizer", calls |-> 0, st |-> Equalizer_new(b)] : b \in {0, 3}}
  \cup {[kind |-> "FadeIn", calls |-> 0, st |-> FadeIn_new(d)] : d \in {0, 4}}
  \cup {[kind |-> "FadeOut", calls |-> 0, st |-> FadeOut_from_sample_count(d[1], d[2])] :
          d \in {<< 0, 1 >>, << 2, 3 >>, << 4, 4 >>, << 4, 2 >>}}
  \cup {[kind |-> "Crossfade", calls |-> 0, st |-> Crossfade_new(4, 1, started)] :
          started \in BOOLEAN}
  \cup VideoConfigs

InitTransform ==
  /\ mode = "transform"
  /\ DriverIdle
  /\ codec \in TransformConfigs
  /\ unit = None
  /\ pc = "transform"
  /\ result = [out |-> None, again |-> FALSE, before |-> None, prev |-> None]

\* a call of apply: guard (the instance exists and has not aborted)
TransformCall(kind) ==
  /\ mode = "transform"
  /\ codec.kind = kind
  /\ codec.calls < MaxApplies
  /\ ~IsPanic(result.out)

\* the frames a call may be handed: a fresh one, or the frame returned last
TransformInputs == TransformFrames \cup (IF IsFrame(result.out) THEN {result.out} ELSE {})

\* a call of apply: what it leaves behind
TransformReturn(frame, st, out) ==
  DriverStep([codec EXCEPT !.st = st, !.calls = @ + 1], frame,
             [out |-> out, again |-> (frame = result.out), before |-> codec.st,
              prev |-> unit], pc)

GainApply ==
  /\ TransformCall("Gain")
  /\ \E frame \in TransformInputs :
       TransformReturn(frame, codec.st, Gain_apply(codec.st.factor, frame))

ChannelMixerApply ==
  /\ TransformCall("ChannelMixer")
  /\ \E frame \in TransformInputs :
       TransformReturn(frame, codec.st, ChannelMixer_apply(codec.st.target_channels, frame))

ResampleApply ==
  /\ TransformCall("Resample")
  /\ \E frame \in TransformInputs :
       TransformReturn(frame, codec.st, Resample_apply(codec.st.target_rate, frame))

NormalizeApply ==
  /\ TransformCall("Normalize")
  /\ \E frame \in TransformInputs :
       \E out \in Normalize_apply(codec.st.target, codec.st.overflow_checks, frame) :
          TransformReturn(frame, codec.st, out)

PeakLimiterApply ==
  /\ TransformCall("PeakLimiter")
  /\ \E frame \in TransformInputs, gain \in GainLevels :
       LET r == PeakLimiter_apply(codec.st, frame, gain) IN TransformReturn(frame, r.st, r.out)

RmsLimiterApply ==
  /\ TransformCall("RmsLimiter")
  /\ \E frame \in TransformInputs, gain \in GainLevels :
       LET r == RmsLimiter_apply(codec.st, frame, gain) IN TransformReturn(frame, r.st, r.out)

LowpassApply ==
  /\ TransformCall("Lowpass")
  /\ \E frame \in TransformInputs, gain \in GainLevels :
       LET r == Lowpass_apply(codec.st, frame, gain) IN TransformReturn(frame, r.st, r.out)

EqualizerApply ==
  /\ TransformCall("Equalizer")
  /\ \E frame \in TransformInputs, gain \in GainLevels :
       LET r == Equalizer_apply(codec.st, frame, gain) IN TransformReturn(frame, r.st, r.out)

FadeInApply ==
  /\ TransformCall("FadeIn")
  /\ \E frame \in TransformInputs :
       LET r == FadeIn_apply(codec.st, frame) IN TransformReturn(frame, r.st, r.out)

FadeOutApply ==
  /\ TransformCall("FadeOut")
  /\ \E frame \in TransformInputs :
       LET r == FadeOut_apply(codec.st, frame) IN TransformReturn(frame, r.st, r.out)

CrossfadeApply ==
  /\ TransformCall("Crossfade")
  /\ \E frame \in TransformInputs :
       LET r == Crossfade_apply(codec.st, frame) IN TransformReturn(frame, r.st, r.out)

FlipApply ==
  /\ TransformCall("Flip")
  /\ \E frame \in TransformInputs :
       TransformReturn(frame, codec.st, Flip_apply_yuv420(codec.st, frame))

RotateApply ==
  /\ TransformCall("Rotate")
  /\ \E frame \in TransformInputs :
       TransformReturn(frame, codec.st, Rotate_apply_yuv420(codec.st, frame))

CropApply ==
  /\ TransformCall("Crop")
  /\ \E frame \in TransformInputs :
       TransformReturn(frame, codec.st, Crop_apply_yuv420(codec.st, frame))

PadApply ==
  /\ TransformCall("Pad")
  /\ \E frame \in TransformInputs :
       TransformReturn(frame, codec.st, Pad_apply_yuv420(codec.st, frame))

BlurApply ==
  /\ TransformCall("Blur")
  /\ \E frame \in TransformInputs :
       TransformReturn(frame, codec.st, Blur_apply_yuv420(codec.st, frame))

BrightnessApply ==
  /\ TransformCall("Brightness")
  /\ \E frame \in TransformInputs :
       TransformReturn(frame, codec.st, Brightness_apply_yuv420(codec.st, frame))

ScaleApply ==
  /\ TransformCall("Scale")
  /\ \E frame \in TransformInputs :
       TransformReturn(frame, codec.st, Scale_apply_yuv420(codec.st, frame))

NextTransform ==
  \/ GainApply \/ ChannelMixerApply \/ ResampleApply \/ NormalizeApply
  \/ PeakLimiterApply \/ RmsLimiterApply \/ LowpassApply \/ EqualizerApply
  \/ FadeInApply \/ FadeOutApply \/ CrossfadeApply
  \/ FlipApply \/ RotateApply \/ CropApply \/ PadApply \/ BlurApply
  \/ BrightnessApply \/ ScaleApply
SpecTransform == InitTransform /\ [][NextTransform]_vars

(***************************************************************************)
(* codecs/adpcm/ms.rs: one channel state of a block, from the state        *)
(* decode_block reads from the block header or encode_block computes from  *)
(* the first two samples, through the decode_sample / encode_sample steps  *)
(* of the block's payload.                                                 *)
(***************************************************************************)
\* mono block headers: predictor index, delta, sample1, sample2
MsBlockHeaders ==
  {<< p >> \o I16ToLE(d) \o I16ToLE(s) \o I16ToLE(0) :
      p \in {0, 1}, d \in {0, 16, 300, 11000, -3}, s \in {0, 1000}}

\* the first two samples of the mono frames handed to the encoder
MsFirstSamples == {<< 0, 0 >>, << 0, 11000 >>, << -32768, 32767 >>, << 100, 50 >>, << 7 >>}

InitMsChannel ==
  /\ mode = "ms_channel"
  /\ DriverIdle
  /\ \/ \E data \in MsBlockHeaders :
          codec = [kind |-> "decode_block", calls |-> 0,
                   st |-> MsAdpcmDecoder_header_states(data, 1)[1]]
     \/ \E samples \in MsFirstSamples :
          codec = [kind |-> "encode_block", calls |-> 0,
                   st |-> MsAdpcmEncoder_initial_states(samples, Len(samples), 1)[1]]
  /\ unit = None
  /\ pc = "block"
  /\ result = None

\* decode_block: one nibble of the payload goes through decode_sample
MsDecodeSample ==
  /\ mode = "ms_channel"
  /\ codec.kind = "decode_block"
  /\ codec.calls < MaxNibbles
  /\ \E nibble \in -8..7 :
       DriverStep([codec EXCEPT !.st = MsAdpcmChannelState_decode_sample(codec.st, nibble),
                                !.calls = @ + 1],
                  [nibble |-> nibble], [delta |-> codec.st.delta], pc)

\* encode_block: one sample of the frame goes through encode_sample
MsEncodeSample ==
  /\ mode = "ms_channel"
  /\ codec.kind = "encode_block"
  /\ codec.calls < MaxNibbles
  /\ \E sample \in {-32768, -5000, 0, 40, 32767} :
       DriverStep([codec EXCEPT !.st = MsAdpcmChannelState_encode_sample(codec.st, sample),
                                !.calls = @ + 1],
                  [nibble |-> MsAdpcmChannelState_encode_nibble(codec.st, sample)],
                  [delta |-> codec.st.delta], pc)

NextMsChannel == MsDecodeSample \/ MsEncodeSample
SpecMsChannel == InitMsChannel /\ [][NextMsChannel]_vars

(***************************************************************************)
(* io/reader.rs: the loop of ReadPrimitives::read_exact over a source      *)
(* whose read may return fewer bytes than asked, 0 at its end, Interrupted *)
(* or another error.  The source of the model returns Interrupted at most  *)
(* MaxInterrupts times in a row.                                           *)
(***************************************************************************)
\* what one call of MediaRead::read can return to a loop that has `filled`
\* bytes of `len`, from a source at `pos` of `bytes`
SourceOutcomes(bytes, pos, len, filled, interrupts) ==
  {[ok |-> n] : n \in 1..Min(len - filled, Len(bytes) - pos)}
    \cup (IF pos >= Len(bytes) THEN {[ok |-> 0]} ELSE {})
    \cup (IF interrupts < MaxInterrupts THEN {Err("Interrupted")} ELSE {})
    \cup {Err("InvalidData")}

\* mutant: an Interrupted error is returned like any other
ReadPrimitives_read_exact_arm_no_retry(st, outcome, got) ==
  IF IsErr(outcome) THEN [st EXCEPT !.out = outcome]
  ELSE IF outcome.ok = 0 THEN [st EXCEPT !.out = Err("UnexpectedEof")]
  ELSE [st EXCEPT !.buf = [i \in 1..Len(st.buf) |->
                             IF i > st.filled /\ i <= st.filled + outcome.ok
                             THEN got[i - st.filled] ELSE st.buf[i]],
                  !.filled = st.filled + outcome.ok]

\* read_exact: the arms of the match on self.read(&mut buf[filled..]); `got`
\* are the bytes the read stored
ReadPrimitives_read_exact_arm(st, outcome, got) ==
  IF IsErr(outcome)
  THEN IF outcome.error = "Interrupted" THEN [st EXCEPT !.retries = st.retries + 1]
       ELSE [st EXCEPT !.out = outcome]
  ELSE IF outcome.ok = 0 THEN [st EXCEPT !.out = Err("UnexpectedEof")]
  ELSE [st EXCEPT !.buf = [i \in 1..Len(st.buf) |->
                             IF i > st.filled /\ i <= st.filled + outcome.ok
                             THEN got[i - st.filled] ELSE st.buf[i]],
                  !.filled = st.filled + outcome.ok]

\* the sources of the model and the lengths of the buffers
ReadExactSources == UNION {[1..n -> {7, 9}] : n \in 0..MaxSourceLen}

InitReadExact ==
  /\ mode = "read_exact"
  /\ DriverIdle
  /\ \E bytes \in ReadExactSources :
       unit = [bytes |-> bytes, pos |-> 0, interrupts |-> 0]
  /\ \E len \in 0..MaxSourceLen :
       codec = [buf |-> [i \in 1..len |-> 0], filled |-> 0, retries |-> 0, out |-> None]
  /\ pc = "loop"
  /\ result = None

\* one turn of the loop: while filled < buf.len() { match self.read(..) }
ReadExactRead ==
  /\ mode = "read_exact"
  /\ pc = "loop"
  /\ codec.filled < Len(codec.buf)
  /\ \E outcome \in SourceOutcomes(unit.bytes, unit.pos, Len(codec.buf), codec.filled,
                                   unit.interrupts) :
       LET n == IF IsErr(outcome) THEN 0 ELSE outcome.ok
           st == ReadPrimitives_read_exact_arm(codec, outcome,
                                               SubSeq(unit.bytes, unit.pos + 1, unit.pos + n))
       IN DriverStep(st,
                     [unit EXCEPT !.pos = unit.pos + n,
                                  !.interrupts = IF outcome = Err("Interrupted")
                                                 THEN unit.interrupts + 1 ELSE 0],
                     outcome,
                     IF IsNone(st.out) THEN "loop" ELSE "done")

\* the loop ends with the buffer full: Ok(())
ReadExactReturn ==
  /\ mode = "read_exact"
  /\ pc = "loop"
  /\ codec.filled >= Len(codec.buf)
  /\ DriverStep([codec EXCEPT !.out = [ok |-> TRUE]], unit, result, "done")

NextReadExact == ReadExactRead \/ ReadExactReturn
\* read_exact runs on the thread of its caller, which keeps running it
SpecReadExact == InitReadExact /\ [][NextReadExact]_vars /\ WF_vars(NextReadExact)

Init == InitPipeline
Next == ReadPacket \/ Decode \/ Transform \/ Encode \/ WritePacket \/ Finalize
Spec == Init /\ [][Next]_vars


(***************************************************************************)
(* Claims checked on the transcode loop (Spec).                            *)
(***************************************************************************)
WellFormedRun ==
  mode = "pipeline" /\ route = "wav_to_wav" /\ chain = << >> /\ srcLen >= dataSize

\* C1: a WAV -> PcmDecoder -> PcmEncoder -> WavWriter run over a well-formed
\* input, once finalized, holds after its 44-byte header exactly the input's
\* D payload bytes in order, and the payload written totals D.
C1_RoundTripPayload ==
  (WellFormedRun /\ pc = "done") =>
     /\ Len(writer.buf) = HEADER_LEN + dataSize
     /\ \A i \in 1..dataSize : writer.buf[HEADER_LEN + i] = SourceByte(i)
     /\ writer.data_size = dataSize

C1_Witness ==
  /\ WellFormedRun /\ pc = "done"
  /\ dataSize > PACKET_SIZE /\ shortReads > 0 /\ format.channels = 3

\* C2: the pts of successive packets returned by read_packet never decreases.
C2_PtsMonotonic ==
  \A i \in 1..(Len(readLog) - 1) : readLog[i].pts <= readLog[i + 1].pts

\* C3: a frame returned by a decoder carries the pts, timebase and
\* stream_index of the packet it was decoded from; a packet returned by an
\* encoder carries the pts and stream_index of the frame it was encoded from.
C3_CodecKeepsPts ==
  mode = "codec" =>
    /\ (codec.kind \in Decoders /\ IsFrame(result)) =>
          /\ result.pts = unit.pts
          /\ result.timebase = unit.timebase
          /\ result.stream_index = unit.stream_index
    /\ (codec.kind \in Encoders /\ IsPacket(result)) =>
          /\ result.pts = unit.pts
          /\ result.stream_index = unit.stream_index

C3_Witness ==
  /\ mode = "codec" /\ codec.kind = "MsAdpcmDecoder" /\ codec.calls = MaxCodecCalls
  /\ IsFrame(result) /\ result.nb_samples > 0
  /\ unit.pts = -3 /\ unit.stream_index = 1 /\ unit.timebase = Timebase_new(1, 44100)
  /\ result.pts = -3

\* C4: the packet returned by encode carries the timebase of the frame it was
\* produced from, also when Resample rewrote that frame's timebase.
C4_EncodeKeepsTimebase ==
  (mode = "pipeline" /\ pc = "write" /\ encFrom.valid) => cur.timebase = encFrom.timebase

\* C5: write_packet is called in the order the packets were read; finalize is
\* called at most once, last, and only after end-of-stream; a run that
\* completes has called it exactly once; a run ended by a read, decode,
\* transform, encode or write error has not called it.
MuxWrites == {i \in DOMAIN muxLog : muxLog[i].op \in {"write", "write_failed"}}
MuxFinals == {i \in DOMAIN muxLog : muxLog[i].op = "finalize"}
C5_OrderAndFinalize ==
  mode = "pipeline" =>
     /\ \A i, j \in MuxWrites : i < j => muxLog[i].id < muxLog[j].id
     /\ Cardinality(MuxFinals) <= 1
     /\ \A i \in MuxFinals : i = Len(muxLog) /\ eos
     /\ (pc = "done" /\ HasMuxer(route)) => Cardinality(MuxFinals) = 1
     /\ err \in {"read", "decode", "transform", "encode", "write"} => MuxFinals = {}
     /\ err # "" => pc = "failed"

C5_Witness ==
  /\ mode = "pipeline" /\ pc = "done" /\ HasMuxer(route)
  /\ Cardinality(MuxWrites) >= 3 /\ Cardinality(MuxFinals) = 1

\* C6: after finalize the four bytes at offset 4 hold 36 + T and the four at
\* offset 40 hold T, little-endian, T being the total size of the packets
\* written; before finalize they hold 36 and 0; the payloads follow the
\* 44-byte header in the order of the write_packet calls.
C6_HeaderSizes ==
  mode = "writer" =>
    LET T == Len(written)
        riff == SubSeq(writer.buf, 5, 8)
        data == SubSeq(writer.buf, 41, 44)
    IN /\ pc = "finalized" => (riff = LE32(RIFF_OVERHEAD + T) /\ data = LE32(T))
       /\ pc \in {"open", "write_failed"} => (riff = LE32(RIFF_OVERHEAD) /\ data = LE32(0))
       /\ pc \in {"open", "finalized"} =>
            SubSeq(writer.buf, HEADER_LEN + 1, Len(writer.buf)) = written

C6_Witness ==
  /\ mode = "writer" /\ pc = "finalized"
  /\ Len(muxLog) = MaxWrites + 1
  /\ muxLog[1].size = 3 /\ muxLog[2].size = 0 /\ muxLog[3].size = 2

\* C7: over a whole stream of D data bytes, the frames PcmDecoder returns
\* satisfy sum(nb_samples) * channels * 2 = D (checked where D is a whole
\* number of sample frames, the only sizes for which the equation can hold).
C7_SampleConservation ==
  (mode = "pipeline" /\ route = "wav_to_wav" /\ srcLen >= dataSize /\ pc = "finalize"
     /\ dataSize % bytes_per_frame(format) = 0)
     => sumSamples * format.channels * 2 = dataSize

\* C8: every audio frame returned by PcmDecoder, AdpcmDecoder, MsAdpcmDecoder,
\* UlawDecoder or Mp3Decoder has data.len() = nb_samples * channels * 2.
C8_FrameSizeInvariant ==
  (/\ mode = "codec"
   /\ codec.kind \in {"PcmDecoder", "AdpcmDecoder", "MsAdpcmDecoder", "UlawDecoder", "Mp3Decoder"}
   /\ IsFrame(result) /\ result.kind = "audio")
  => Len(result.data) = result.nb_samples * result.channels * 2

\* C9: every packet holds 1..4096 bytes and no more than was left of the data
\* chunk; the packets never total more than the declared size; once that many
\* bytes were returned, read_packet returns None without reading the source.
C9_PacketBounds ==
  mode = "pipeline" =>
     /\ \A i \in DOMAIN readLog :
          /\ readLog[i].size >= 1 /\ readLog[i].size <= PACKET_SIZE
          /\ readLog[i].off + readLog[i].size <= dataSize
          /\ readLog[i].off = SumSeq([k \in 1..(i - 1) |-> readLog[k].size])
     /\ SumSeq([k \in DOMAIN readLog |-> readLog[k].size]) <= dataSize
     /\ (lastPoll.result # "" /\ lastPoll.returned = dataSize)
           => (lastPoll.result = "none" /\ ~lastPoll.read)

C9_Witness ==
  /\ mode = "pipeline" /\ Len(readLog) >= 3 /\ srcLen > dataSize
  /\ lastPoll.returned = dataSize /\ lastPoll.result = "none" /\ extraReads >= 1

\* C10: the pts of each packet is the number of data bytes returned before it
\* divided by bytes_per_frame.
C10_PtsCumulative ==
  \A i \in DOMAIN readLog : readLog[i].pts = readLog[i].off \div bytes_per_frame(format)

\* the header fields h describe a 16-bit WAVE file with an in-range channel count
WavHeaderWellFormed(h) ==
  /\ h.riff = TagRIFF /\ h.wave = TagWAVE
  /\ h.fmt_size >= 16 /\ h.bit_depth = 16
  /\ h.channels \in 1..255

\* C11: WavReader::new returns a reader only for a RIFF/WAVE header whose fmt
\* chunk has at least 16 bytes, declares 16 bits and a channel count in range
\* (not zero); a complete file with any other header is rejected with
\* InvalidData, and no read_packet on an accepted file fails or aborts on a
\* division by zero.
C11_HeaderValidated ==
  (mode = "demux" /\ unit.kind = "WavReader") =>
    /\ pc \in {"open", "aborted"} => WavHeaderWellFormed(unit.hdr)
    /\ (pc = "rejected" /\ unit.hdr.cut = 0 /\ ~WavHeaderWellFormed(unit.hdr))
          => result.out = Err("InvalidData")
    /\ pc # "aborted"
    /\ ("op" \in DOMAIN result /\ result.op = "read_packet") => ~IsErr(result.out)

\* the rest of a Y4M input after position pos ends inside a FRAME line or
\* inside the payload that follows a FRAME line
Y4mEndsInsideFrame(data, pos, size) ==
  LET rest == SubSeq(data, pos + 1, Len(data))
      nl == {i \in DOMAIN rest : rest[i] = NewLine}
  IN /\ rest # << >>
     /\ \/ nl = {}
        \/ LET first == CHOOSE i \in nl : \A j \in nl : i <= j IN
           /\ first > 5 /\ SubSeq(rest, 1, 5) = TagFRAME
           /\ Utf8Valid(SubSeq(rest, 1, first - 1))
           /\ Len(rest) - first < size

\* C12: a read_packet call made when the input has ended before the declared
\* payload is complete returns an UnexpectedEof error, not end-of-stream: for
\* WavReader when the source is exhausted while data_remaining > 0, for
\* Y4mReader when the source ends inside a FRAME line or a frame's payload.
\* A Y4M source at a frame boundary yields None, and a read_packet that
\* returns no packet leaves frame_count as it was.
C12_TruncationIsUnexpectedEof ==
  (mode = "demux" /\ "op" \in DOMAIN result /\ result.op = "read_packet") =>
    LET r0 == result.before IN
    IF unit.kind = "WavReader"
    THEN (r0.data_remaining > 0 /\ Len(unit.bytes) - (codec.st.start + r0.pos) = 0)
            => result.out = Err("UnexpectedEof")
    ELSE /\ (r0.pos = Len(unit.bytes)) => IsNone(result.out)
         /\ IsNone(result.out) => r0.pos = Len(unit.bytes)
         /\ Y4mEndsInsideFrame(unit.bytes, r0.pos, Y4mFormat_frame_size(r0.format))
              => result.out = Err("UnexpectedEof")
         /\ ~IsPacket(result.out) => codec.st.frame_count = r0.frame_count
         /\ IsPacket(result.out) => codec.st.frame_count = r0.frame_count + 1

\* the Y4mReader half of C12 on its own
C12_Y4mOnly ==
  (mode = "demux" /\ unit.kind = "Y4mReader") => C12_TruncationIsUnexpectedEof

\* the bytes a BufferedReader still holds or has yet to fetch, in order
BufferedPending(st, data) ==
  SubSeq(st.buffer, st.pos + 1, st.filled) \o SubSeq(data, st.inner + 1, Len(data))

\* the statement of C13 as the specification words it: the delivered bytes
\* are the inner source's, in order, and a read returns 0 only when the
\* inner source is at EOF and the window is empty (whatever the buffer size)
C13_Transparent ==
  mode = "buffered" =>
    /\ result.delivered \o BufferedPending(codec.st, unit) = unit
    /\ (result.op = "read" /\ result.bytes = << >>) =>
          (result.before.inner = Len(unit) /\ result.before.pos >= result.before.filled)
    /\ (result.op = "read_exact" /\ IsErr(result.out)) => result.delivered = unit

\* C13 (amended): BufferedReader is transparent: for every capacity N >= 1,
\* inner byte sequence and sequence of read / read_exact calls, the bytes
\* delivered followed by the bytes still pending are the inner source's
\* bytes in order; a read into a non-empty buffer returns 0 only when the
\* inner source is at EOF and the window is empty; read_exact fails only
\* once every byte has been delivered.
C13_TransparentNonEmpty ==
  mode = "buffered" =>
    /\ result.delivered \o BufferedPending(codec.st, unit) = unit
    /\ (result.op = "read" /\ result.len > 0 /\ result.bytes = << >>) =>
          (result.before.inner = Len(unit) /\ result.before.pos >= result.before.filled)
    /\ (result.op = "read_exact" /\ IsErr(result.out)) => result.delivered = unit

\* a five-byte source was delivered whole through both the window and the bypass
C13_Witness ==
  /\ mode = "buffered" /\ Len(unit) = 5 /\ result.delivered = unit
  /\ result.paths = {"bypass", "window"}

\* an apply of transform `kind` has returned after being handed an audio frame
AppliedToAudio(kind) ==
  /\ mode = "transform" /\ codec.kind = kind
  /\ IsFrame(unit) /\ unit.kind = "audio"

\* sample x times K = num/den, clamped to the i16 range, is the sample y
\* (the fraction of the product dropped)
IsClampedProduct(x, factor, y) ==
  LET v == x * factor.num IN
  IF v > 32767 * factor.den THEN y = 32767
  ELSE IF v < -32768 * factor.den THEN y = -32768
  ELSE y = TruncDiv(v, factor.den)

\* the statement of C14 as the specification words it: out-of-range products
\* of Gain(2.0) saturate to +32767 or -32767
C14_GainSaturatesSymmetric ==
  AppliedToAudio("Gain") =>
    /\ IsFrame(result.out) /\ Len(result.out.data) = Len(unit.data)
    /\ \A i \in 1..(Len(unit.data) \div 2) :
         LET x == SamplesOf(unit.data)[i]
             y == SamplesOf(result.out.data)[i]
         IN /\ IsClampedProduct(x, codec.st.factor, y)
            /\ codec.st.factor = [num |-> 2, den |-> 1] =>
                 /\ (x < 16384 /\ x > -16384) => y = 2 * x
                 /\ 2 * x > 32767 => y = 32767
                 /\ -2 * x > 32767 => y = -32767

\* C14 (amended): Gain(K).apply replaces every 16-bit sample x of an audio
\* frame by x*K clamped to the i16 range; with K = 2.0 every sample with
\* |x| < 16384 becomes exactly 2x, every sample with 2x > 32767 saturates to
\* +32767 and every sample with 2x < -32768 saturates to -32768 (x = -16384
\* becomes -32768 without saturating).
C14_GainClamps ==
  AppliedToAudio("Gain") =>
    /\ IsFrame(result.out) /\ Len(result.out.data) = Len(unit.data)
    /\ \A i \in 1..(Len(unit.data) \div 2) :
         LET x == SamplesOf(unit.data)[i]
             y == SamplesOf(result.out.data)[i]
         IN /\ IsClampedProduct(x, codec.st.factor, y)
            /\ codec.st.factor = [num |-> 2, den |-> 1] =>
                 /\ (x < 16384 /\ x > -16384) => y = 2 * x
                 /\ 2 * x > 32767 => y = 32767
                 /\ 2 * x < -32768 => y = -32768
                 /\ x = -16384 => y = -32768

\* Gain(2.0) has doubled 16383 and -16384, or saturated 16384 and -16385
C14_Witness ==
  /\ AppliedToAudio("Gain") /\ codec.st.factor = [num |-> 2, den |-> 1]
  /\ \/ /\ SamplesOf(unit.data) = << 16384, -16385 >>
        /\ SamplesOf(result.out.data) = << 32767, -32768 >>
     \/ /\ SamplesOf(unit.data) = << 16383, -16384 >>
        /\ SamplesOf(result.out.data) = << 32766, -32768 >>

\* n/2 rounded to the nearest integer, halves away from zero
RoundHalf(n) == IF n >= 0 THEN (n + 1) \div 2 ELSE -((1 - n) \div 2)

\* C15: ChannelMixer targeting mono, applied to a stereo frame of n
\* sample-frames, returns a frame with channels = 1 and nb_samples = n whose
\* samples are round((L+R)/2) of the input pairs.
C15_MonoMixRounds ==
  (AppliedToAudio("ChannelMixer") /\ codec.st.target_channels = 1 /\ unit.channels = 2) =>
    /\ IsFrame(result.out)
    /\ result.out.channels = 1
    /\ result.out.nb_samples = unit.nb_samples
    /\ Len(result.out.data) = 2 * unit.nb_samples
    /\ \A i \in 1..unit.nb_samples :
         SamplesOf(result.out.data)[i]
           = RoundHalf(SamplesOf(unit.data)[2 * i - 1] + SamplesOf(unit.data)[2 * i])

\* a/b (b > 0) rounded to the nearest integer, halves away from zero
RoundDiv(a, b) == IF a >= 0 THEN (2 * a + b) \div (2 * b) ELSE -((b - 2 * a) \div (2 * b))

\* C16: Resample(target).apply on an audio frame with sample rate src # target
\* returns a frame with sample_rate = target, timebase 1/target and
\* pts = round(old_pts * target / src); with src = target the frame comes
\* back unchanged.
C16_ResamplePtsRounded ==
  (AppliedToAudio("Resample") /\ unit.sample_rate > 0) =>
    IF unit.sample_rate = codec.st.target_rate THEN result.out = unit
    ELSE /\ IsFrame(result.out)
         /\ result.out.sample_rate = codec.st.target_rate
         /\ result.out.timebase = Timebase_new(1, codec.st.target_rate)
         /\ result.out.pts = RoundDiv(unit.pts * codec.st.target_rate, unit.sample_rate)

\* C17: applying Normalize(P) to the frame Normalize(P) returned gives the
\* same samples up to 1 LSB each, for every frame of i16 samples, frames
\* holding -32768 included (so no apply aborts).
C17_NormalizeIdempotent ==
  AppliedToAudio("Normalize") =>
    /\ IsFrame(result.out)
    /\ result.again =>
         /\ Len(result.out.data) = Len(unit.data)
         /\ \A i \in 1..(Len(unit.data) \div 2) :
              LET d == SamplesOf(result.out.data)[i] - SamplesOf(unit.data)[i]
              IN d \in -1..1

\* the transforms of transform/ and the operators of transform/video
AudioTransforms ==
  {"Gain", "Normalize", "Lowpass", "Equalizer", "PeakLimiter", "RmsLimiter", "FadeIn",
   "FadeOut", "Crossfade", "ChannelMixer", "Resample"}
VideoOperators == {"Scale", "Crop", "Pad", "Rotate", "Flip", "Blur", "Brightness"}

\* C18: an audio transform handed a video frame returns it with data,
\* dimensions, pts, timebase and stream_index unchanged and keeps its own
\* state as it was before the call; a video operator handed an audio frame
\* returns it unchanged.
C18_OtherKindUntouched ==
  (mode = "transform" /\ codec.calls > 0 /\ IsFrame(unit)) =>
     /\ (codec.kind \in AudioTransforms /\ unit.kind = "video") =>
           (result.out = unit /\ codec.st = result.before)
     /\ (codec.kind \in VideoOperators /\ unit.kind = "audio") => result.out = unit

\* a FadeIn whose cursor has advanced over an audio frame is handed a video frame
C18_Witness ==
  /\ mode = "transform"
  /\ codec.kind = "FadeIn"
  /\ codec.calls = 2
  /\ IsFrame(unit)
  /\ unit.kind = "video"
  /\ codec.st.current_sample > 0
  /\ result.out = unit

\* C19: apply of every audio transform on an audio frame whose sample_rate
\* is 0 does not abort and returns the frame with data, sample_rate,
\* channels, nb_samples, pts and timebase unchanged.
C19_ZeroRateUnchanged ==
  (/\ mode = "transform"
   /\ codec.calls > 0
   /\ codec.kind \in AudioTransforms
   /\ IsFrame(unit)
   /\ unit.kind = "audio"
   /\ unit.sample_rate = 0) =>
     /\ IsFrame(result.out)
     /\ result.out.data = unit.data
     /\ result.out.sample_rate = unit.sample_rate
     /\ result.out.channels = unit.channels
     /\ result.out.nb_samples = unit.nb_samples
     /\ result.out.pts = unit.pts
     /\ result.out.timebase = unit.timebase

\* a Flip::horizontal(W, H) has just been applied to the frame it returned
\* for a W x H YUV420 frame (result.prev) with W and H even
FlippedTwice ==
  /\ mode = "transform"
  /\ codec.kind = "Flip"
  /\ codec.st.direction = "Horizontal"
  /\ codec.calls >= 2
  /\ result.again
  /\ IsFrame(result.prev)
  /\ result.prev.kind = "video"
  /\ result.prev.width = codec.st.width
  /\ result.prev.height = codec.st.height
  /\ codec.st.width % 2 = 0
  /\ codec.st.height % 2 = 0
  /\ Len(result.prev.data) = (codec.st.width * codec.st.height * 3) \div 2

\* C20: Flip::horizontal(W, H) applied twice to a W x H YUV420 frame, W and H
\* even, returns a frame whose Y, U and V bytes are those of the original
\* frame, with pts, timebase and stream_index unchanged.
C20_FlipHorizontalInvolution ==
  FlippedTwice =>
    /\ IsFrame(result.out)
    /\ result.out.data = result.prev.data
    /\ result.out.pts = result.prev.pts
    /\ result.out.timebase = result.prev.timebase
    /\ result.out.stream_index = result.prev.stream_index

\* a 4 x 2 frame whose first flip moved bytes is back after the second
C20_Witness ==
  /\ FlippedTwice
  /\ codec.st.width = 4
  /\ unit.data # result.prev.data
  /\ result.out.data = result.prev.data

\* the largest frame_size FrameHeader::parse returns for any header
Mp3MaxFrameSize ==
  LET headers == {x \in (224..255) \X (0..255) :
                     ~IsNone(FrameHeader_parse(<< 255, x[1], x[2], 0 >>, 0))}
      sizes == {FrameHeader_parse(<< 255, x[1], x[2], 0 >>, 0).frame_size : x \in headers}
  IN CHOOSE m \in sizes : \A n \in sizes : n <= m

\* C21: whatever packets Mp3Decoder::decode has been handed, its residual
\* buffer holds at most a small multiple (here four times) of the largest
\* MP3 frame plus 4 KiB.
C21_ResidualBounded ==
  (mode = "codec" /\ codec.kind = "Mp3Decoder") =>
     Len(codec.st.residual_data) <= 4 * Mp3MaxFrameSize + 4096

\* C22: the delta of an MS-ADPCM channel state is at least 16 and fits i16,
\* as read from a block header or computed by the encoder and after every
\* decode_sample / encode_sample step.
C22_DeltaFloored ==
  mode = "ms_channel" => (codec.st.delta >= 16 /\ codec.st.delta <= 32767)

\* the dimensions a video operator was built to read, and those of the
\* picture it produces (output_dimensions where the operator has one)
OperatorSourceDimensions(c) ==
  IF c.kind \in {"Scale", "Crop", "Pad"} THEN << c.st.src_width, c.st.src_height >>
  ELSE << c.st.width, c.st.height >>
OperatorOutputDimensions(c) ==
  IF c.kind = "Scale" THEN << c.st.target_width, c.st.target_height >>
  ELSE IF c.kind = "Pad" THEN << c.st.dst_width, c.st.dst_height >>
  ELSE IF c.kind = "Rotate" THEN Rotate_output_dimensions(c.st)
  ELSE << c.st.width, c.st.height >>

\* a video operator has been applied to a YUV420 frame of its source dimensions
AppliedToValidVideo ==
  /\ mode = "transform"
  /\ codec.kind \in VideoOperators
  /\ codec.calls > 0
  /\ IsFrame(unit)
  /\ unit.kind = "video"
  /\ << unit.width, unit.height >> = OperatorSourceDimensions(codec)
  /\ Len(unit.data) = (unit.width * unit.height * 3) \div 2

\* C23: the frame apply_yuv420 returns for a valid YUV420 frame of the
\* operator's source dimensions carries the operator's output dimensions as
\* width and height and at least width * height * 3 / 2 bytes of data.
C23_OutputFrameInvariant ==
  AppliedToValidVideo =>
    /\ IsFrame(result.out)
    /\ << result.out.width, result.out.height >> = OperatorOutputDimensions(codec)
    /\ 2 * Len(result.out.data) >= result.out.width * result.out.height * 3

\* C24: in every transcode route, the packet handed to write_packet is one
\* the encoder returned for a frame the decoder produced from the packet read.
C24_CodecsBeforeWrite ==
  (mode = "pipeline" /\ HasMuxer(route) /\ pc = "write") =>
     /\ encFrom.valid
     /\ IsPacket(cur)
     /\ cur = PcmEncoder_encode(Pipeline_encoder_timebase(format),
                                [pts |-> encFrom.pts, timebase |-> encFrom.timebase,
                                 stream_index |-> encFrom.stream_index, data |-> cur.data])

\* a complete file with a well-formed header has been opened, or refused
WavCompleteFileOpened ==
  /\ mode = "demux"
  /\ unit.kind = "WavReader"
  /\ WavHeaderWellFormed(unit.hdr)
  /\ unit.hdr.cut = 0
  /\ unit.hdr.missing = 0
  /\ pc # "new"

\* where the payload of the data chunk starts in a complete file of the model
WavDataStart(input) == Len(input.bytes) - input.hdr.data_size

\* C25: whatever chunks come before the fmt chunk or between the fmt chunk
\* and the data chunk, WavReader::new finds the data chunk, and the packets
\* read are the declared payload bytes from the first byte after the data
\* chunk header on.
C25_DataChunkLocated ==
  WavCompleteFileOpened =>
    /\ pc = "open"
    /\ codec.st.start = WavDataStart(unit)
    /\ codec.st.reader.pos + codec.st.reader.data_remaining = unit.hdr.data_size
    /\ (result.op = "read_packet" /\ IsPacket(result.out)) =>
          result.out.data = SubSeq(unit.bytes, WavDataStart(unit) + result.before.pos + 1,
                                   WavDataStart(unit) + codec.st.reader.pos)

\* what read_exact has stored and returned, at every point of its loop
ReadExactOutcome ==
  mode = "read_exact" =>
    /\ unit.pos = codec.filled
    /\ SubSeq(codec.buf, 1, codec.filled) = SubSeq(unit.bytes, 1, codec.filled)
    /\ codec.out = [ok |-> TRUE] => codec.filled = Len(codec.buf)
    /\ codec.out = Err("UnexpectedEof") <=> (pc = "done" /\ result = [ok |-> 0])
    /\ result = [ok |-> 0] => codec.filled < Len(codec.buf)
    /\ codec.out # Err("Interrupted")
    /\ (IsErr(result) /\ result.error # "Interrupted") => (pc = "done" /\ codec.out = result)
    /\ result = Err("Interrupted") => (pc = "loop" /\ IsNone(codec.out))

\* C26: read_exact returns Ok only with the whole buffer filled by the
\* source's next bytes in order, UnexpectedEof when the source reads 0 bytes
\* before that, any error other than Interrupted as it is; Interrupted is
\* retried and never returned, and the call returns once the source stops
\* interrupting.
C26_ReadExactCompletes ==
  []ReadExactOutcome /\ <>(mode = "read_exact" /\ pc = "done")

\* a buffer of three bytes filled after retries
C26_Witness ==
  /\ mode = "read_exact"
  /\ pc = "done"
  /\ codec.out = [ok |-> TRUE]
  /\ Len(codec.buf) = MaxSourceLen
  /\ codec.retries >= 2
  /\ unit.interrupts = 0

\* the first frame, of whole pairs of samples, has been encoded by an AdpcmEncoder
AdpcmFirstFrameEncoded ==
  /\ mode = "codec"
  /\ codec.kind = "AdpcmEncoder"
  /\ codec.calls = 1
  /\ IsPacket(result)
  /\ Len(unit.data) % 4 = 0

\* C27: AdpcmEncoder assigns the samples of the interleaved stream to the
\* per-channel states as AdpcmDecoder does, sample n to state n mod channels:
\* decoding the packet the encoder returned advances a fresh decoder's states
\* to the states the encoder is left with.
C27_EncoderMirrorsDecoder ==
  AdpcmFirstFrameEncoded =>
    codec.st.states
      = AdpcmDecoder_decode_loop(AdpcmDecoder_new(WavFormat(codec.st.channels, 8000, 16)).states,
                                 result.data, 0, codec.st.channels, << >>).states

\* the frame number a packet of the encoder carries after its sync code
FlacFrameNumber(packet) == packet.data[3]

\* one call of FlacEncoder::encode: a packet carries the count of the packets
\* before it and advances the count by one, no packet leaves the count alone
FlacEncodeCounts ==
  (mode = "codec" /\ codec.kind = "FlacEncoder" /\ codec'.calls = codec.calls + 1) =>
    IF IsPacket(result')
    THEN /\ FlacFrameNumber(result') = codec.st.frame_count
         /\ codec'.st.frame_count = codec.st.frame_count + 1
    ELSE /\ IsNone(result')
         /\ codec'.st.frame_count = codec.st.frame_count

\* C28: FlacEncoder numbers the packets it returns 0, 1, 2, ...: the counter
\* starts at 0, a call that returns a packet encodes it with the counter and
\* advances it by one, and a call that returns None leaves it unchanged.
C28_FramesNumberedFromZero ==
  /\ (mode = "codec" /\ codec.kind = "FlacEncoder") => codec.st.frame_count = 0
  /\ [][FlacEncodeCounts]_vars

\* a packet numbered 0 returned by the second call, the first having returned None
C28_Witness ==
  /\ mode = "codec"
  /\ codec.kind = "FlacEncoder"
  /\ codec.calls = 2
  /\ codec.st.frame_count = 1
  /\ IsPacket(result)
  /\ FlacFrameNumber(result) = 0

\* the sample-frames the stream held before the frame applied last: those of
\* the audio frame applied before it, none on the first call
StreamPosition ==
  IF codec.calls > 1 /\ IsFrame(result.prev) /\ result.prev.kind = "audio"
  THEN result.prev.nb_samples ELSE 0

\* a fade was applied to an audio frame and returned a frame
FadeApplied(kind) ==
  /\ AppliedToAudio(kind)
  /\ codec.calls >= 1
  /\ IsFrame(result.out)

\* sample-frame i (from 0) of the frame applied last carries the gain num/den
\* in every channel
FadedBy(i, num, den) ==
  \A ch \in 1..unit.channels :
    SamplesOf(result.out.data)[i * unit.channels + ch]
      = ClampI16(TruncDiv(SamplesOf(unit.data)[i * unit.channels + ch] * num, den))

\* FadeIn: position n carries the gain n / duration_samples below
\* duration_samples and the gain 1 from there on
FadeInByPosition ==
  FadeApplied("FadeIn") =>
    \A i \in 0..(unit.nb_samples - 1) :
      LET n == StreamPosition + i IN
      IF n < codec.st.duration_samples THEN FadedBy(i, n, codec.st.duration_samples)
      ELSE FadedBy(i, 1, 1)

\* FadeOut: the gains of the sample-frames are g / duration_samples for
\* numerators g that never increase, the whole before
\* total_samples - duration_samples and 0 from total_samples on
FadeOutByPosition ==
  FadeApplied("FadeOut") =>
    LET den == Max(codec.st.duration_samples, 1) IN
    \E g \in [0..(unit.nb_samples - 1) -> 0..den] :
      \A i \in 0..(unit.nb_samples - 1) :
        LET n == StreamPosition + i IN
        /\ FadedBy(i, g[i], den)
        /\ i > 0 => g[i] <= g[i - 1]
        /\ n < codec.st.total_samples - codec.st.duration_samples => g[i] = den
        /\ n >= codec.st.total_samples => g[i] = 0

\* C29: the gain a fade gives a sample-frame depends on its position in the
\* stream only, however the stream is cut into frames: FadeIn gives position
\* n the gain n / duration_samples below duration_samples and 1 after it;
\* FadeOut gives 1 before total_samples - duration_samples, then gains that
\* never increase, and 0 from total_samples on.
C29_FadeByStreamPosition == FadeInByPosition /\ FadeOutByPosition

\* a filter was applied to an audio frame that holds samples
FilterApplied(kind) ==
  /\ AppliedToAudio(kind)
  /\ codec.calls >= 1
  /\ unit.nb_samples * unit.channels > 0

\* C30: whatever the channel counts and sample rates of the audio frames
\* applied so far, Equalizer and Lowpass hold one biquad state per channel
\* for at least the channels of the frame whose samples they filter.
C30_ChannelStatesCoverFrame ==
  (FilterApplied("Equalizer") \/ FilterApplied("Lowpass")) =>
    codec.st.states >= unit.channels
====
